---- MODULE Spec2Model ----
(***************************************************************************)
(* Market-intelligence analysis pipeline (src/api/agent_logic.py): the     *)
(* orchestrator run_market_intelligence_agent, its ten stages, the SQLite  *)
(* states table behind save_state / load_state, and the JSON-recovery      *)
(* parser llm_json_parser_robust.                                          *)
(*                                                                         *)
(* Text is a sequence of symbols.  A symbol is one character ("[", "]",    *)
(* "{", "}", the quote, ",", ":", a digit) or a chunk of characters that   *)
(* holds none of those (a word, "```json" written "F", Fence written "E"). *)
(* Whitespace is left out of the alphabet: strip() and the \s* of the      *)
(* fence pattern only remove it and json.loads skips it.                   *)
(***************************************************************************)
EXTENDS Integers, Sequences, FiniteSets, TLC

VARIABLES
    pphase,     \* parser harness: "idle" before the call, "done" after it
    text,       \* llm_output_str of the parser call
    dflt,       \* default_return_val of the parser call (None when omitted)
    parsed,     \* the value the parser call returned
    pc,         \* orchestrator: "start", "graph" (inside app.ainvoke), "finish", "returned"
    node,       \* the graph node that runs next
    cpc,        \* position inside market_data_collector
    attempts,   \* attempts made by the current @retry-wrapped search call
    loc,        \* locals of market_data_collector: the URL lists found so far
    inp,        \* the arguments of run_market_intelligence_agent
    env,        \* what the process found at import: which optional libraries loaded
    st,         \* the analysis state handed from node to node
    db,         \* the rows of the SQLite table "states"
    fs,         \* the paths that exist on disk
    vs_index,   \* the documents of the FAISS index saved on disk (<<>>: none saved)
    error_state_id, \* the uuid4 drawn at the start of the run
    result,     \* what run_market_intelligence_agent returned
    escaped,    \* an exception left run_market_intelligence_agent
    executed,   \* history: the nodes that have run, in order
    saved_by,   \* history: the nodes that called save_state, in order
    save_ids,   \* history: the identifiers save_state was called with
    last_saved, \* history: the state of the latest save_state call whose INSERT committed
    raised,     \* history: the nodes that raised, with the cause
    loaded,     \* the latest load_state call: [id, val]
    obj,        \* a MarketIntelligenceState instance built outside a run
    vop,        \* the latest construction of or assignment to obj: [op, domain, query, ok]
    kcall,      \* a get_api_key call: its arguments, the data_sources table, os.environ
    kret,       \* what the get_api_key call returned
    chat,       \* the rows of the SQLite table "chat_history"
    now,        \* what datetime.now() reads
    chat_log,   \* history: the turns save_chat_message was called with, in order
    qcall,      \* the arguments of one owner-scoped query, the table and the disk it sees
    qret,       \* what the query returned
    rr,         \* one stage called twice: the stage, its collaborators' responses, the states
    fc,         \* one pass of the collector's loop over the URLs: its inputs and its list
    co,         \* one pass of the collector over its backends: their outcomes, what it kept
    gw,         \* two calls of the data gateways in a row: search_results_cache, the call
    cr,         \* two runs side by side: their inputs, where each stands, who wrote which path
    ch,         \* one chart of generate_charts: the collection and the values it plots
    rp,         \* one report of final_report_generator: the state and the sections it appends
    ci,         \* customer_insights_generator called twice: the table customer_insights
    cw,         \* chat_with_agent: its arguments and what it returned or raised
    mg,         \* database.py: the globals _db_client and _db, the clients, the last call
    tk          \* one call of analyze_text_keywords: the text and the result

pvars == <<pphase, text, dflt, parsed>>
rvars == <<pc, node, cpc, attempts, loc, inp, env, st, db, fs, vs_index, error_state_id, result,
           escaped, executed, saved_by, save_ids, last_saved, raised, loaded>>
svars == <<obj, vop>>
kvars == <<kcall, kret>>
hvars == <<chat, now, chat_log>>
qvars == <<qcall, qret>>
xvars == <<cr, ch, rp, ci, cw, mg, tk>>
ovars == <<rr, fc, co, gw, xvars>>
cvars == <<svars, kvars, hvars, qvars, ovars>>
vars == <<pvars, rvars, cvars>>

None == <<"none", <<>>>>

(***************************************************************************)
(* JSON values, as json.loads builds them: a tagged pair.                  *)
(***************************************************************************)
JNum(ds)  == <<"num", ds>>
JStr(cs)  == <<"str", cs>>
JArr(xs)  == <<"arr", xs>>
JObj(ms)  == <<"obj", ms>>

Quote == "\""

\* str.find: the first index holding c, from 1; 0 when there is none (-1 in Python)
Find(t, c) ==
    IF \E i \in 1..Len(t) : t[i] = c
    THEN CHOOSE i \in 1..Len(t) : t[i] = c /\ \A j \in 1..(i-1) : t[j] # c
    ELSE 0

\* the first index >= from holding a symbol of S; 0 when there is none
FindIn(t, S, from) ==
    IF \E i \in from..Len(t) : t[i] \in S
    THEN CHOOSE i \in from..Len(t) : t[i] \in S /\ \A j \in from..(i-1) : t[j] \notin S
    ELSE 0

(***************************************************************************)
(* re.sub(r"```json\s*([\s\S]*?)\s*```", r"\1", ...): every "```json" that *)
(* has a later Fence is replaced, with the text up to the first such       *)
(* Fence, by that text.  The three backticks that open a second "```json"  *)
(* close the first one and leave the word "json" behind.                   *)
(***************************************************************************)
RECURSIVE StripFences(_)
StripFences(t) ==
    LET i == Find(t, "F")
        j == IF i = 0 THEN 0 ELSE FindIn(t, {"F", "E"}, i + 1)
    IN  IF i = 0 \/ j = 0 THEN t
        ELSE SubSeq(t, 1, i - 1) \o SubSeq(t, i + 1, j - 1)
             \o (IF t[j] = "F" THEN <<"json">> ELSE <<>>)
             \o StripFences(SubSeq(t, j + 1, Len(t)))

Closer(c) == IF c = "{" THEN "}" ELSE "]"

\* a faulty variant: brackets of both types are counted
RECURSIVE ScanEndAnyBracket(_, _, _, _)
ScanEndAnyBracket(t, c, i, open) ==
    IF i > Len(t) THEN 0
    ELSE LET o2 == IF t[i] \in {"{", "["} THEN open + 1
                   ELSE IF t[i] \in {"}", "]"} THEN open - 1
                   ELSE open
         IN  IF o2 = 0 THEN i ELSE ScanEndAnyBracket(t, c, i + 1, o2)

\* the for loop of the parser: the first index from i on where open_count is 0
RECURSIVE ScanEnd(_, _, _, _)
ScanEnd(t, c, i, open) ==
    IF i > Len(t) THEN 0
    ELSE LET o2 == IF t[i] = c THEN open + 1
                   ELSE IF t[i] = Closer(c) THEN open - 1
                   ELSE open
         IN  IF o2 = 0 THEN i ELSE ScanEnd(t, c, i + 1, o2)

(***************************************************************************)
(* json.loads on a symbol sequence: recursive descent over arrays,         *)
(* objects, strings (no escapes: the alphabet has no backslash) and        *)
(* numbers (runs of digits).  A result is [ok, val, next].                 *)
(***************************************************************************)
Digits == {"1", "2", "3"}
PFail == [ok |-> FALSE, val |-> None, next |-> 0]
POk(v, n) == [ok |-> TRUE, val |-> v, next |-> n]

RECURSIVE DigitsEnd(_, _)
DigitsEnd(t, i) == IF i <= Len(t) /\ t[i] \in Digits THEN DigitsEnd(t, i + 1) ELSE i

ParseString(t, i) ==
    IF i > Len(t) \/ t[i] # Quote THEN PFail
    ELSE LET j == FindIn(t, {Quote}, i + 1)
         IN  IF j = 0 THEN PFail ELSE POk(JStr(SubSeq(t, i + 1, j - 1)), j + 1)

RECURSIVE ParseValue(_, _)
RECURSIVE ParseElems(_, _, _)
RECURSIVE ParseMembers(_, _, _)

ParseValue(t, i) ==
    IF i > Len(t) THEN PFail
    ELSE IF t[i] = "[" THEN
            IF i + 1 <= Len(t) /\ t[i + 1] = "]" THEN POk(JArr(<<>>), i + 2)
            ELSE ParseElems(t, i + 1, <<>>)
    ELSE IF t[i] = "{" THEN
            IF i + 1 <= Len(t) /\ t[i + 1] = "}" THEN POk(JObj(<<>>), i + 2)
            ELSE ParseMembers(t, i + 1, <<>>)
    ELSE IF t[i] = Quote THEN ParseString(t, i)
    ELSE IF t[i] \in Digits THEN
            LET j == DigitsEnd(t, i) IN POk(JNum(SubSeq(t, i, j - 1)), j)
    ELSE PFail

ParseElems(t, i, acc) ==
    LET r == ParseValue(t, i)
    IN  IF ~r.ok \/ r.next > Len(t) THEN PFail
        ELSE IF t[r.next] = "]" THEN POk(JArr(Append(acc, r.val)), r.next + 1)
        ELSE IF t[r.next] = "," THEN ParseElems(t, r.next + 1, Append(acc, r.val))
        ELSE PFail

ParseMembers(t, i, acc) ==
    LET k == ParseString(t, i)
    IN  IF ~k.ok \/ k.next > Len(t) \/ t[k.next] # ":" THEN PFail
        ELSE LET r == ParseValue(t, k.next + 1)
                 m == <<k.val[2], r.val>>
             IN  IF ~r.ok \/ r.next > Len(t) THEN PFail
                 ELSE IF t[r.next] = "}" THEN POk(JObj(Append(acc, m)), r.next + 1)
                 ELSE IF t[r.next] = "," THEN ParseMembers(t, r.next + 1, Append(acc, m))
                 ELSE PFail

\* json.loads(s): the whole of s must be one value; JSONDecodeError otherwise
JsonLoads(s) ==
    LET r == ParseValue(s, 1)
    IN  IF r.ok /\ r.next = Len(s) + 1 THEN r ELSE PFail

\* a faulty variant: the caller's default is dropped
DefaultOrEmptyList(d) == JArr(<<>>)

\* "default_return_val if default_return_val is not None else []"
DefaultOr(d) == IF d # None THEN d ELSE JArr(<<>>)

ExtractJson(cleaned) ==
    LET start_brace   == Find(cleaned, "{")
        start_bracket == Find(cleaned, "[")
        json_start_char ==
            IF start_brace # 0 /\ (start_bracket = 0 \/ start_brace < start_bracket)
            THEN "{" ELSE "["
        json_start_index == IF json_start_char = "{" THEN start_brace ELSE start_bracket
        json_end_index == ScanEnd(cleaned, json_start_char, json_start_index, 0)
    IN  IF start_brace = 0 /\ start_bracket = 0 THEN [found |-> FALSE, s |-> <<>>]
        ELSE IF json_end_index = 0 THEN [found |-> FALSE, s |-> <<>>]
        ELSE [found |-> TRUE, s |-> SubSeq(cleaned, json_start_index, json_end_index)]

llm_json_parser_robust(llm_output_str, default_return_val) ==
    LET cleaned_llm_output == StripFences(llm_output_str)
        x == ExtractJson(cleaned_llm_output)
        r == JsonLoads(x.s)
    IN  IF ~x.found THEN DefaultOr(default_return_val)
        ELSE IF r.ok THEN r.val
        ELSE DefaultOr(default_return_val)

(***************************************************************************)
(* Values of the analysis state.  Python None in an Optional[str] field is *)
(* NoStr; a path is the tuple of its components and the unset path is      *)
(* NoPath; a text built from pieces is the tuple of the pieces and the     *)
(* unset text is NoText.                                                   *)
(***************************************************************************)
NoStr == "None"
NoPath == <<>>
NoText == <<NoStr>>

Lower == {"a","b","c","d","e","f","g","h","i","j","k","l","m",
          "n","o","p","q","r","s","t","u","v","w","x","y","z"}
Upper == {"A","B","C","D","E","F","G","H","I","J","K","L","M",
          "N","O","P","Q","R","S","T","U","V","W","X","Y","Z"}
Numerals == {"0","1","2","3","4","5","6","7","8","9"}
Whitespace == {" ", "\t", "\n"}

\* the characters of the strings the runs and the direct calls are given
CharsOf(s) ==
    CASE s = "EdTech"      -> <<"E","d","T","e","c","h">>
      [] s = " EdTech"     -> <<" ","E","d","T","e","c","h">>
      [] s = "Ed!Tech"     -> <<"E","d","!","T","e","c","h">>
      [] s = "Tech!!"      -> <<"T","e","c","h","!","!">>
      [] s = "Tech-2025"   -> <<"T","e","c","h","-","2","0","2","5">>
      [] s = " "           -> <<" ">>
      [] s = "AI tutors"   -> <<"A","I"," ","t","u","t","o","r","s">>
      [] s = "ai market"   -> <<"a","i"," ","m","a","r","k","e","t">>
      [] s = " ai market " -> <<" ","a","i"," ","m","a","r","k","e","t"," ">>
      [] s = "ab"          -> <<"a","b">>
      [] s = " ab "        -> <<" ","a","b"," ">>
      [] OTHER             -> <<>>

KnownStrings == {"EdTech", " EdTech", "Ed!Tech", "Tech!!", "Tech-2025", " ", "AI tutors",
                 "ai market", " ai market ", "ab", " ab ", ""}
StrOf(cs) == CHOOSE s \in KnownStrings : CharsOf(s) = cs

\* str.strip()
RECURSIVE LStrip(_)
LStrip(cs) == IF cs # <<>> /\ Head(cs) \in Whitespace THEN LStrip(Tail(cs)) ELSE cs
RECURSIVE RStrip(_)
RStrip(cs) ==
    IF cs # <<>> /\ cs[Len(cs)] \in Whitespace THEN RStrip(SubSeq(cs, 1, Len(cs) - 1)) ELSE cs
Strip(cs) == RStrip(LStrip(cs))

\* a validator returns the stored value or raises ValueError
Valid(v) == [ok |-> TRUE, val |-> v]
Invalid(msg) == [ok |-> FALSE, val |-> msg]

validate_market_domain_value(v_domain) ==
    LET cs == CharsOf(v_domain)
    IN  IF cs = <<>> THEN Invalid("Market domain cannot be empty.")
        ELSE IF \E i \in 1..Len(cs) : cs[i] \notin Lower \cup Upper \cup Numerals \cup Whitespace \cup {"-"}
        THEN Invalid("Market domain must contain only letters, numbers, spaces, or hyphens.")
        ELSE Valid(StrOf(Strip(cs)))

\* a faulty variant: the accepted query is returned as it was given
validate_query_untrimmed(v_query) ==
    IF v_query = NoStr \/ CharsOf(v_query) = <<>> THEN Valid(NoStr)
    ELSE IF Len(Strip(CharsOf(v_query))) < 3
    THEN Invalid("Query must be at least 3 characters long if provided.")
    ELSE Valid(v_query)

validate_query_value(v_query) ==
    IF v_query = NoStr \/ CharsOf(v_query) = <<>> THEN Valid(NoStr)
    ELSE IF Len(Strip(CharsOf(v_query))) < 3
    THEN Invalid("Query must be at least 3 characters long if provided.")
    ELSE Valid(StrOf(Strip(CharsOf(v_query))))

(***************************************************************************)
(* download_files is declared Dict[str, str].  A value is tagged with what *)
(* it is at run time: <<"str", path>> or <<"list", paths>>.  Item          *)
(* assignment on the dict is not validated; construction of a state is.    *)
(***************************************************************************)
PathStr(p) == <<"str", p>>
PathList(ps) == <<"list", ps>>
EmptyDict == [k \in {} |-> PathStr(NoPath)]
SetItem(d, k, v) == [x \in DOMAIN d \cup {k} |-> IF x = k THEN v ELSE d[x]]
AllValuesStr(d) == \A k \in DOMAIN d : d[k][1] = "str"

\* MarketIntelligenceState(**fields): the field validators, then the declared types
MarketIntelligenceState(fields) ==
    LET vd == validate_market_domain_value(fields.market_domain)
        vq == validate_query_value(fields.query)
    IN  IF ~vd.ok THEN Invalid(vd.val)
        ELSE IF ~vq.ok THEN Invalid(vq.val)
        ELSE IF ~AllValuesStr(fields.download_files)
        THEN Invalid("download_files: Input should be a valid string")
        ELSE Valid([fields EXCEPT !.market_domain = vd.val, !.query = vq.val])

\* the field defaults of the class, with the four arguments of the run
FieldDefaults(id, domain, query, question, user) ==
    [ raw_news_data |-> <<>>, competitor_data |-> <<>>, financial_data |-> <<>>,
      market_trends |-> <<>>, opportunities |-> <<>>,
      strategic_recommendations |-> <<>>, customer_insights |-> <<>>,
      market_domain |-> domain, query |-> query, user_id |-> user,
      question |-> question, query_response |-> NoStr, report_template |-> NoText,
      vector_store_path |-> NoPath, state_id |-> id, report_dir |-> NoPath,
      chart_paths |-> <<>>, download_files |-> EmptyDict ]

NoState == FieldDefaults(NoStr, NoStr, NoStr, NoStr, NoStr)

(***************************************************************************)
(* The table "states": id is the primary key, and INSERT OR REPLACE        *)
(* removes the row that holds the id before it inserts.  state_data is the *)
(* JSON text of the state; json.loads gives back the same fields, so the   *)
(* row holds the fields themselves.  A failed statement changes nothing    *)
(* and save_state swallows the error.                                      *)
(***************************************************************************)
Row(s) == [id |-> s.state_id, user_id |-> s.user_id, market_domain |-> s.market_domain,
           query |-> s.query, state_data |-> s]

InsertOrReplace(rows, r) == {x \in rows : x.id # r.id} \cup {r}

\* a save whose failed statement would take the stored row with it
save_state_losing_row(rows, state_obj, committed) ==
    IF committed THEN InsertOrReplace(rows, Row(state_obj))
    ELSE {x \in rows : x.id # state_obj.state_id}

save_state(rows, state_obj, committed) ==
    IF committed THEN InsertOrReplace(rows, Row(state_obj)) ELSE rows

\* load_state: None when no row, when sqlite fails, when the stored fields do not validate
Loaded(v) == <<"state", v>>
load_state(rows, state_id_to_load, readable) ==
    IF ~readable \/ ~\E r \in rows : r.id = state_id_to_load THEN None
    ELSE LET r == CHOOSE x \in rows : x.id = state_id_to_load
             m == MarketIntelligenceState(r.state_data)
         IN  IF m.ok THEN Loaded(m.val) ELSE None

(***************************************************************************)
(* The table "chat_history": PRIMARY KEY (session_id, timestamp), and the  *)
(* timestamp of a row is what datetime.now() read when the turn was saved. *)
(* An INSERT that the key rejects raises IntegrityError, which             *)
(* save_chat_message logs and swallows.                                    *)
(***************************************************************************)
ChatRow(session_id_val, message_type_val, content_val, timestamp) ==
    [session_id |-> session_id_val, message_type |-> message_type_val,
     content |-> content_val, timestamp |-> timestamp]

save_chat_message(rows, session_id_val, message_type_val, content_val, timestamp) ==
    IF \E r \in rows : r.session_id = session_id_val /\ r.timestamp = timestamp
    THEN rows
    ELSE rows \cup {ChatRow(session_id_val, message_type_val, content_val, timestamp)}

\* SELECT message_type, content ... WHERE session_id = ? ORDER BY timestamp ASC
load_chat_history(rows, session_id_val) ==
    LET mine == {r \in rows : r.session_id = session_id_val}
        n == Cardinality(mine)
        sorted == CHOOSE q \in [1..n -> mine] :
                      \A i, j \in 1..n : i < j => q[i].timestamp < q[j].timestamp
    IN  [i \in 1..n |-> [type |-> sorted[i].message_type, content |-> sorted[i].content]]

(***************************************************************************)
(* The four analysis stages.  A stage default is the list the stage        *)
(* builds before it calls the model; the texts the model may answer with   *)
(* are parsed by llm_json_parser_robust.                                   *)
(***************************************************************************)
Str(x) == JStr(<<x>>)
Member(k, v) == << <<k>>, v >>

default_trends_list ==
    << JObj(<< Member("trend_name", Str("Default Trend")),
               Member("description", Str("No specific trends identified.")),
               Member("supporting_evidence", Str("N/A")),
               Member("estimated_impact", Str("Unknown")),
               Member("timeframe", Str("Unknown")) >>) >>

default_ops ==
    << JObj(<< Member("opportunity_name", Str("Default Opportunity")),
               Member("description", Str("N/A")),
               Member("target_segment", Str("N/A")),
               Member("competitive_advantage", Str("N/A")),
               Member("estimated_potential", Str("Unknown")),
               Member("timeframe_to_capture", Str("Unknown")) >>) >>

default_strats ==
    << JObj(<< Member("strategy_title", Str("Default Strategy")),
               Member("description", Str("N/A")),
               Member("implementation_steps", JArr(<<>>)),
               Member("expected_outcome", Str("N/A")),
               Member("resource_requirements", Str("N/A")),
               Member("priority_level", Str("Unknown")),
               Member("success_metrics", Str("N/A")) >>) >>

Segment(name, pct, growth, score) ==
    JObj(<< Member("segment_name", Str(name)),
            Member("percentage", JNum(<<pct>>)),
            Member("growth_potential", Str(growth)),
            Member("satisfaction_score", JNum(<<score>>)) >>)

default_insights ==
    << Segment("Enterprise", "35", "Medium", "7.8"),
       Segment("SMB", "45", "High", "8.2"),
       Segment("Startups", "20", "Very High", "8.5") >>

\* what "await chain.ainvoke(...)" can do: raise, or answer with a text
Raises(kind) == <<"raise", kind>>
Answers(t) == <<"text", t>>

\* a fenced array of one object {name_key: "X", level_key: "High"}
GoodAnswer(name_key, level_key) ==
    <<"F", "[", "{", Quote, name_key, Quote, ":", Quote, "X", Quote, ",",
      Quote, level_key, Quote, ":", Quote, "High", Quote, "}", "]", "E">>

\* answers that hold no list of objects: prose, an object, a list of numbers
BadListAnswers == { <<"a">>, <<"{", "}">>, <<"[", "1", "]">> }

ListAnswers(name_key, level_key) ==
    BadListAnswers \cup { <<"[", "]">>, GoodAnswer(name_key, level_key) }

\* a faulty variant: the shape of the parsed value is not looked at
AnyShape(v) == TRUE

\* "isinstance(parsed, list) and all(isinstance(x, dict) for x in parsed)"
IsListOfDicts(v) == v[1] = "arr" /\ \A i \in 1..Len(v[2]) : v[2][i][1] = "obj"

\* the body shared by trend_analyzer, opportunity_identifier, strategy_recommender
\* and customer_insights_generator, up to save_state: [state, files]
AnalysisStage(s, files, field, default, outcome, file_key, file_name, wrote) ==
    IF outcome[1] = "raise"
    THEN [state |-> [s EXCEPT ![field] = default], files |-> files]
    ELSE LET p == llm_json_parser_robust(outcome[2], JArr(default))
             v == IF IsListOfDicts(p) THEN p[2] ELSE default
             s1 == [s EXCEPT ![field] = v]
             path == Append(s.report_dir, file_name)
         IN  IF s.report_dir # NoPath /\ wrote
             THEN [state |-> [s1 EXCEPT !.download_files = SetItem(@, file_key, PathStr(path))],
                   files |-> files \cup {path}]
             ELSE [state |-> s1, files |-> files]

(***************************************************************************)
(* report_template_generator: the answer is a text of pieces.              *)
(***************************************************************************)
default_tmpl(domain) ==
    <<"# Market Intelligence Report: ", domain, "\n## Executive Summary\n...">>

\* the pieces that stand for the three backticks, with and without "markdown"
FenceMarkdown == "<fence markdown>"
Fence == "<fence>"

\* answers with no text in them once the fences and the blanks are taken away
EmptyTemplateAnswers == { <<>>, <<" ">>, <<FenceMarkdown, Fence>> }

TemplateAnswers ==
    EmptyTemplateAnswers \cup { <<"T">>, <<FenceMarkdown, "\n", "T", "\n", Fence>> }

CleanTemplate(generated_template) ==
    LET c0 == Strip(generated_template)
        c1 == IF c0 # <<>> /\ Head(c0) = FenceMarkdown THEN Strip(Tail(c0)) ELSE c0
        c2 == IF c1 # <<>> /\ c1[Len(c1)] = Fence THEN Strip(SubSeq(c1, 1, Len(c1) - 1)) ELSE c1
    IN  c2

\* a faulty variant: the template stage also resets the answer field
TemplateStageResetsAnswer(s, outcome) ==
    [s EXCEPT !.report_template = default_tmpl(s.market_domain), !.query_response = ""]

TemplateStage(s, outcome) ==
    IF outcome[1] = "raise" THEN [s EXCEPT !.report_template = default_tmpl(s.market_domain)]
    ELSE LET cleaned_template == CleanTemplate(outcome[2])
         IN  [s EXCEPT !.report_template =
                 IF cleaned_template # <<>> THEN cleaned_template
                 ELSE default_tmpl(s.market_domain)]

(***************************************************************************)
(* Paths.  The run directory name is built from the query and the clock;   *)
(* one run has one.                                                        *)
(***************************************************************************)
BaseDir == <<"reports1">>
RunDir == <<"reports1", "run">>
ErrorDir == <<"reports1", "ERROR_REPORT">>
ErrorFile == <<"reports1", "ERROR_REPORT", "ERROR_REPORT.md">>
Basename(p) == IF p = NoPath THEN NoStr ELSE p[Len(p)]
DataJson(dir) == Append(dir, "data_sources.json")
DataCsv(dir) == Append(dir, "data_sources.csv")

(***************************************************************************)
(* The documents of market_data_collector.                                 *)
(***************************************************************************)
URLs == {"u1"}
Article(u) == [source |-> "NewsAPI", title |-> "Article", summary |-> "Summary",
               full_content |-> "Content", url |-> u]
Fetched(u) == [source |-> u, title |-> "Page", summary |-> "Summary",
               full_content |-> "Content", url |-> u]
NotLoaded(u) == [source |-> u, title |-> "Content Not Loaded", summary |-> "",
                 full_content |-> "", url |-> u]
FailedToLoad(u) == [source |-> u, title |-> "Failed to Load", summary |-> "error",
                    full_content |-> "", url |-> u]

\* what fetch_url_content may do with a URL
FetchOutcomes == {"loaded", "not loaded", "failed"}

\* what the direct article gateways may add to all_fetched_data
DirectArticles == { <<>>, <<Article("u1")>> }

\* a faulty variant: the loop ends at the first URL whose fetch fails
RECURSIVE FetchAllUntilFailure(_, _, _)
FetchAllUntilFailure(urls, all_fetched_data, fetch_ok) ==
    IF urls = <<>> THEN all_fetched_data
    ELSE LET loop_url == Head(urls)
         IN  IF \E i \in 1..Len(all_fetched_data) : all_fetched_data[i].url = loop_url
             THEN FetchAllUntilFailure(Tail(urls), all_fetched_data, fetch_ok)
             ELSE IF fetch_ok[loop_url] = "failed" THEN all_fetched_data
             ELSE FetchAllUntilFailure(Tail(urls),
                                       Append(all_fetched_data,
                                              IF fetch_ok[loop_url] = "loaded"
                                              THEN Fetched(loop_url) ELSE NotLoaded(loop_url)),
                                       fetch_ok)

\* the loop over combined_unique_urls, in the order the set is listed
RECURSIVE FetchAll(_, _, _)
FetchAll(urls, all_fetched_data, fetch_ok) ==
    IF urls = <<>> THEN all_fetched_data
    ELSE LET loop_url == Head(urls)
         IN  IF \E i \in 1..Len(all_fetched_data) : all_fetched_data[i].url = loop_url
             THEN FetchAll(Tail(urls), all_fetched_data, fetch_ok)
             ELSE FetchAll(Tail(urls),
                           Append(all_fetched_data,
                                  CASE fetch_ok[loop_url] = "loaded" -> Fetched(loop_url)
                                    [] fetch_ok[loop_url] = "not loaded" -> NotLoaded(loop_url)
                                    [] OTHER -> FailedToLoad(loop_url)),
                           fetch_ok)

Orderings(S) == {q \in [1..Cardinality(S) -> S] : \A i, j \in DOMAIN q : i # j => q[i] # q[j]}

(***************************************************************************)
(* setup_vector_store, rag_query_handler, generate_charts and              *)
(* final_report_generator, up to save_state.                               *)
(***************************************************************************)
VectorStorePath(dir) == Append(dir, "vector_store_faiss")

\* the documents read back from the JSON artifact: the collector wrote its
\* all_fetched_data there, which is raw_news_data; an item counts when its
\* full_content or else its summary is not empty
HasText(item) == item.full_content # "" \/ item.summary # ""
Doc(item) == [page_content |-> IF item.full_content # "" THEN item.full_content
                               ELSE item.summary,
              source |-> item.source, title |-> item.title]
DocsForVs(s, files, read_ok) ==
    IF DataJson(s.report_dir) \in files /\ read_ok
    THEN LET items == SelectSeq(s.raw_news_data, HasText)
         IN  [i \in 1..Len(items) |-> Doc(items[i])]
    ELSE <<>>

FallbackDocument(s) ==
    [page_content |-> <<"Market Intelligence Report for ", s.market_domain, ". Query: ",
                        IF s.query = NoStr THEN "N/A" ELSE s.query, ".">>,
     source |-> "Fallback", title |-> "Fallback Document"]

\* a faulty variant: no fallback document is put in
NoFallback(docs_for_vs, s) == docs_for_vs

\* "if not docs_for_vs: docs_for_vs = [fallback]"
OrFallback(docs_for_vs, s) ==
    IF docs_for_vs = <<>> THEN <<FallbackDocument(s)>> ELSE docs_for_vs

\* every document here is shorter than chunk_size, so it is one chunk of the index;
\* built is FALSE when the embedding model, FAISS or save_local raises
VectorStoreStage(s, files, read_ok, built) ==
    LET vs_path == VectorStorePath(s.report_dir)
        docs_for_vs == OrFallback(DocsForVs(s, files, read_ok), s)
    IN  IF built
        THEN [state |-> [s EXCEPT !.vector_store_path = vs_path],
              files |-> files \cup {vs_path}, index |-> docs_for_vs]
        ELSE [state |-> [s EXCEPT !.vector_store_path = NoPath],
              files |-> files, index |-> <<>>]

\* a faulty variant: the handler leaves the state as it found it
RagStageSilent(s, files, outcome) == s

RagOutcomes == {"result", "no result", "ValueError", "Exception"}

\* a faulty variant: the index is looked for before the question
RagStageIndexFirst(s, files, outcome) ==
    IF s.vector_store_path = NoPath \/ s.vector_store_path \notin files
    THEN [s EXCEPT !.query_response = "Vector store not available. Cannot answer question."]
    ELSE IF s.question = NoStr \/ s.question = ""
    THEN [s EXCEPT !.query_response = "No question provided for RAG query."]
    ELSE [s EXCEPT !.query_response = "Answer"]

RagStage(s, files, outcome) ==
    IF s.question = NoStr \/ s.question = ""
    THEN [s EXCEPT !.query_response = "No question provided for RAG query."]
    ELSE IF s.vector_store_path = NoPath \/ s.vector_store_path \notin files
    THEN [s EXCEPT !.query_response = "Vector store not available. Cannot answer question."]
    ELSE [s EXCEPT !.query_response =
            CASE outcome = "result"     -> "Answer"
              [] outcome = "no result"  -> "No response generated."
              [] outcome = "ValueError" -> "Error processing question due to configuration: error"
              [] OTHER                  -> "Error processing question: error"]

ChartFields == <<"market_trends", "opportunities", "customer_insights", "strategic_recommendations">>
ChartFiles == <<"market_trends_impact.png", "opportunities_distribution.png",
                "customer_insights.png", "strategic_recommendations.png">>
RenderFailures == {"none", "style"} \cup {ChartFields[i] : i \in DOMAIN ChartFields}

\* the four "if collection:" blocks from block i on; fail names the block that raises
RECURSIVE RenderCharts(_, _, _, _)
RenderCharts(s, files, i, fail) ==
    IF i > Len(ChartFields) THEN [state |-> s, files |-> files, raised |-> FALSE]
    ELSE IF s[ChartFields[i]] = <<>> THEN RenderCharts(s, files, i + 1, fail)
    ELSE IF fail = ChartFields[i] THEN [state |-> s, files |-> files, raised |-> TRUE]
    ELSE LET chart_path == Append(s.report_dir, ChartFiles[i])
         IN  RenderCharts([s EXCEPT !.chart_paths = Append(@, chart_path)],
                          files \cup {chart_path}, i + 1, fail)

\* a faulty variant: a chart is drawn for every collection, empty or not
ChartStageEvery(s, files, fail) ==
    LET paths == [i \in DOMAIN ChartFiles |-> Append(s.report_dir, ChartFiles[i])]
    IN  [state |-> [s EXCEPT !.chart_paths = paths,
                             !.download_files = SetItem(@, "charts", PathList(paths))],
         files |-> files \cup {paths[i] : i \in DOMAIN paths}]

ChartStage(s, files, fail) ==
    IF fail = "style" THEN [state |-> s, files |-> files]
    ELSE LET r == RenderCharts(s, files, 1, fail)
         IN  IF r.raised THEN [state |-> r.state, files |-> r.files]
             ELSE [state |-> [r.state EXCEPT !.download_files =
                                 SetItem(@, "charts", PathList(r.state.chart_paths))],
                   files |-> r.files]

ReportStage(s, files, wrote_report, wrote_readme) ==
    LET report_path == Append(s.report_dir, "market_intelligence_report.md")
        readme_path == Append(s.report_dir, "README.md")
        s1 == [s EXCEPT !.download_files = SetItem(@, "final_report", PathStr(report_path))]
        s2 == [s1 EXCEPT !.download_files = SetItem(@, "readme", PathStr(readme_path))]
    IN  IF ~wrote_report THEN [state |-> s, files |-> files]
        ELSE IF ~wrote_readme THEN [state |-> s1, files |-> files \cup {report_path}]
        ELSE [state |-> s2, files |-> files \cup {report_path, readme_path}]

(***************************************************************************)
(* The graph of run_market_intelligence_agent and its two results.         *)
(***************************************************************************)
END == "__end__"

\* a faulty variant: the edge out of trend_analyzer passes over opportunity_identifier
EdgeSkipsAStage ==
    [ market_data_collector |-> "trend_analyzer",
      trend_analyzer |-> "strategy_recommender",
      opportunity_identifier |-> "strategy_recommender",
      strategy_recommender |-> "customer_insights_generator",
      customer_insights_generator |-> "report_template_generator",
      report_template_generator |-> "setup_vector_store",
      setup_vector_store |-> "rag_query_handler",
      rag_query_handler |-> "generate_charts",
      generate_charts |-> "final_report_generator",
      final_report_generator |-> END ]

EntryPoint == "market_data_collector"
Edge ==
    [ market_data_collector |-> "trend_analyzer",
      trend_analyzer |-> "opportunity_identifier",
      opportunity_identifier |-> "strategy_recommender",
      strategy_recommender |-> "customer_insights_generator",
      customer_insights_generator |-> "report_template_generator",
      report_template_generator |-> "setup_vector_store",
      setup_vector_store |-> "rag_query_handler",
      rag_query_handler |-> "generate_charts",
      generate_charts |-> "final_report_generator",
      final_report_generator |-> END ]

IDs == {"id1", "id2"}
uuid4(used) == CHOOSE i \in IDs \ used : TRUE

Dict(d) == <<"dict", d>>

NoResult ==
    [ success |-> FALSE, state_id |-> NoStr, report_dir_relative |-> NoPath,
      report_filename |-> NoStr, chart_filenames |-> <<>>, query_response |-> NoStr,
      download_files |-> None, error |-> NoStr ]

SuccessResult(final_state) ==
    [ success |-> TRUE, state_id |-> final_state.state_id,
      report_dir_relative |-> IF final_state.report_dir = NoPath THEN NoPath
                              ELSE <<Basename(final_state.report_dir)>>,
      report_filename |-> "market_intelligence_report.md",
      chart_filenames |-> [i \in 1..Len(final_state.chart_paths) |->
                              Basename(final_state.chart_paths[i])],
      query_response |-> final_state.query_response,
      download_files |-> Dict(final_state.download_files), error |-> NoStr ]

FailureResult(eid, error_report_dir_path, error_report_file_path, message) ==
    [ success |-> FALSE, state_id |-> eid,
      report_dir_relative |-> IF error_report_dir_path = NoPath THEN NoPath
                              ELSE <<Basename(error_report_dir_path)>>,
      report_filename |-> Basename(error_report_file_path),
      chart_filenames |-> <<>>, query_response |-> NoStr,
      download_files |-> None, error |-> message ]

\* an exception: its class and its text
Exc(type, msg) == [type |-> type, msg |-> msg]

\* @retry(stop=stop_after_attempt(3), ...) on the two search gateways: after a
\* failed attempt the wrapper stops when the attempt number has reached the limit
stop_after_attempt == 3

\* a faulty variant: a wrapper with no stop condition
RetryNeverStops(attempt_number) == FALSE

RetryStops(attempt_number) == attempt_number >= stop_after_attempt

(***************************************************************************)
(* get_api_key.  Its strings are tuples of characters, so that lower(),    *)
(* replace(), strip() and the substring test "in" do what they do in the   *)
(* code.  A key that is returned is Key(characters); None is returned      *)
(* when there is none.                                                     *)
(***************************************************************************)
AlphaLower == <<"a", "b", "c", "d", "e", "f", "g", "h", "i", "j", "k", "l", "m", "n", "o", "p", "q", "r", "s", "t", "u", "v", "w", "x", "y", "z">>
AlphaUpper == <<"A", "B", "C", "D", "E", "F", "G", "H", "I", "J", "K", "L", "M", "N", "O", "P", "Q", "R", "S", "T", "U", "V", "W", "X", "Y", "Z">>
LowerChar(c) ==
    IF \E i \in 1..26 : AlphaUpper[i] = c
    THEN AlphaLower[CHOOSE i \in 1..26 : AlphaUpper[i] = c] ELSE c
UpperChar(c) ==
    IF \E i \in 1..26 : AlphaLower[i] = c
    THEN AlphaUpper[CHOOSE i \in 1..26 : AlphaLower[i] = c] ELSE c
ToLower(t) == [i \in 1..Len(t) |-> LowerChar(t[i])]
ToUpper(t) == [i \in 1..Len(t) |-> UpperChar(t[i])]
StartsWith(t, sub) == Len(sub) <= Len(t) /\ SubSeq(t, 1, Len(sub)) = sub

\* t.replace(sub, ""), sub not empty
RECURSIVE Remove(_, _)
Remove(t, sub) ==
    IF t = <<>> THEN <<>>
    ELSE IF StartsWith(t, sub) THEN Remove(SubSeq(t, Len(sub) + 1, Len(t)), sub)
    ELSE <<Head(t)>> \o Remove(Tail(t), sub)

\* "sub in t"
Contains(sub, t) == \E i \in 1..(Len(t) - Len(sub) + 1) : SubSeq(t, i, i + Len(sub) - 1) = sub

Key(cs) == <<"key", cs>>

normalized(service_name) ==
    Strip(Remove(Remove(Remove(ToLower(service_name), <<"_">>), <<"a", "p", "i">>), <<"s", "e", "a", "r", "c", "h">>))

GeminiNames == {<<"g", "e", "m", "i", "n", "i">>, <<"g", "o", "o", "g", "l", "e", "g", "e", "m", "i", "n", "i">>}
GeminiTerms == {<<"g", "o", "o", "g", "l", "e">>, <<"g", "e", "m", "i", "n", "i">>, <<"a", "i">>}

\* lines 168-187; "A and B or C" is "(A and B) or C"
match_found(normalized_service_name, source) ==
    LET source_name_lower == Remove(ToLower(source.name), <<" ">>)
        source_type_lower == Remove(ToLower(source.type), <<" ">>)
    IN  \/ Contains(normalized_service_name, source_name_lower)
        \/ Contains(normalized_service_name, source_type_lower)
        \/ (/\ normalized_service_name \in GeminiNames
            /\ \E term \in GeminiTerms : Contains(term, source_type_lower))
        \/ \E term \in GeminiTerms : Contains(term, source_name_lower)

\* config is None or Dict([apiKey, api_key]); a key that is missing is <<>>
api_key_from_db(source) ==
    IF source.config = None THEN <<>>
    ELSE LET config == source.config[2]
         IN  Strip(IF config.apiKey # <<>> THEN config.apiKey ELSE config.api_key)

\* the loop over response.data: the first source that matches and holds a key
RECURSIVE FirstStoredKey(_, _)
FirstStoredKey(normalized_service_name, data) ==
    IF data = <<>> THEN None
    ELSE IF match_found(normalized_service_name, Head(data)) /\ api_key_from_db(Head(data)) # <<>>
    THEN Key(api_key_from_db(Head(data)))
    ELSE FirstStoredKey(normalized_service_name, Tail(data))

\* table("data_sources").select(...).eq("user_id", user_id).eq("status", "active")
ActiveSourcesOf(table, user_id) ==
    SelectSeq(table, LAMBDA r : r.user_id = user_id /\ r.status = "active")

\* os.getenv(name): the value, or nothing (<<>>, as falsy as the empty string)
getenv(environ, name) ==
    IF \E p \in environ : p[1] = name THEN (CHOOSE p \in environ : p[1] = name)[2] ELSE <<>>

GoogleKeyName(environ) ==
    IF \E p \in environ : p[1] = <<"G", "O", "O", "G", "L", "E", "_", "A", "P", "I", "_", "K", "E", "Y", "_", "N", "A", "M", "E">> THEN getenv(environ, <<"G", "O", "O", "G", "L", "E", "_", "A", "P", "I", "_", "K", "E", "Y", "_", "N", "A", "M", "E">>)
    ELSE <<"G", "O", "O", "G", "L", "E", "_", "A", "P", "I", "_", "K", "E", "Y">>

\* internal_to_env_map.get(k): the variable name, or nothing
internal_to_env_map(k, environ) ==
    CASE k = <<"t", "a", "v", "i", "l", "y">> -> <<"T", "A", "V", "I", "L", "Y", "_", "A", "P", "I", "_", "K", "E", "Y">>
      [] k = <<"s", "e", "r", "p", "a", "p", "i">> -> <<"S", "E", "R", "P", "A", "P", "I", "_", "A", "P", "I", "_", "K", "E", "Y">>
      [] k = <<"n", "e", "w", "s", "_", "a", "p", "i">> -> <<"N", "E", "W", "S", "_", "A", "P", "I", "_", "K", "E", "Y">>
      [] k = <<"n", "e", "w", "s", "a", "p", "i">> -> <<"N", "E", "W", "S", "_", "A", "P", "I", "_", "K", "E", "Y">>
      [] k = <<"f", "i", "n", "a", "n", "c", "i", "a", "l", "_", "m", "o", "d", "e", "l", "i", "n", "g", "_", "p", "r", "e", "p">> -> <<"F", "I", "N", "A", "N", "C", "I", "A", "L", "_", "M", "O", "D", "E", "L", "I", "N", "G", "_", "P", "R", "E", "P", "_", "A", "P", "I", "_", "K", "E", "Y">>
      [] k = <<"a", "l", "p", "h", "a", "_", "v", "a", "n", "t", "a", "g", "e">> -> <<"A", "L", "P", "H", "A", "_", "V", "A", "N", "T", "A", "G", "E", "_", "A", "P", "I", "_", "K", "E", "Y">>
      [] k = <<"m", "e", "d", "i", "a", "s", "t", "a", "c", "k">> -> <<"M", "E", "D", "I", "A", "S", "T", "A", "C", "K", "_", "A", "P", "I", "_", "K", "E", "Y">>
      [] k \in {<<"g", "o", "o", "g", "l", "e", "_", "g", "e", "m", "i", "n", "i">>, <<"g", "e", "m", "i", "n", "i">>, <<"g", "o", "o", "g", "l", "e", "_", "g", "e", "n", "a", "i">>} -> GoogleKeyName(environ)
      [] OTHER -> <<>>

Or(a, b) == IF a # <<>> THEN a ELSE b

\* lines 208-245: the fallback to the environment
key_from_environment(service_name, environ) ==
    LET normalized_service_name == normalized(service_name)
        mapped == Or(internal_to_env_map(ToUpper(service_name), environ),
                     Or(internal_to_env_map(normalized_service_name, environ),
                        internal_to_env_map(ToLower(service_name), environ)))
        env_var_name == IF mapped # <<>> THEN mapped
                        ELSE ToUpper(service_name) \o <<"_", "A", "P", "I", "_", "K", "E", "Y">>
        api_key_from_env == getenv(environ, env_var_name)
        google == getenv(environ, <<"G", "O", "O", "G", "L", "E", "_", "A", "P", "I", "_", "K", "E", "Y">>)
    IN  IF Strip(api_key_from_env) # <<>> THEN Key(Strip(api_key_from_env))
        ELSE IF /\ normalized_service_name \in GeminiNames \cup {<<"g", "o", "o", "g", "l", "e", "_", "g", "e", "n", "a", "i">>}
                /\ api_key_from_env = <<>>
                /\ Strip(google) # <<>>
        THEN Key(Strip(google))
        ELSE None

\* supabase is "ok", "unavailable" (no client) or "error" (the query raises)
get_api_key(service_name, user_id, supabase, table, environ) ==
    LET stored == IF user_id \notin {NoStr, ""} /\ supabase = "ok"
                  THEN FirstStoredKey(normalized(service_name), ActiveSourcesOf(table, user_id))
                  ELSE None
    IN  IF stored # None THEN stored ELSE key_from_environment(service_name, environ)


(***************************************************************************)
(* The parser on its own: the caller assembles any text over Alphabet of   *)
(* at most MaxLen symbols, then makes one call, with or without a          *)
(* caller-supplied default.                                                *)
(***************************************************************************)
MaxLen == 5
Alphabet == {"[", "]", "{", "}", Quote, "a", "F", "E"}

SomeDefault == JArr(<<JObj(<< <<(<<"name">>), JStr(<<"Default">>)>> >>)>>)
ParserDefaults == {None, SomeDefault}

\* no run has been called
NoRun ==
    /\ pc = "idle" /\ node = EntryPoint /\ cpc = "begin" /\ attempts = 0 /\ loc = {}
    /\ inp = [query_str |-> NoStr, market_domain_str |-> NoStr, question_str |-> NoStr,
              user_id |-> NoStr, entry |-> "run_market_intelligence_agent"]
    /\ env = [chart_libs |-> TRUE, llm |-> "up", net |-> "up", disk |-> "ok", db |-> "ok",
              dirs |-> "ok"]
    /\ st = NoState /\ db = {} /\ fs = {} /\ vs_index = <<>> /\ error_state_id = NoStr
    /\ result = NoResult /\ escaped = FALSE /\ executed = <<>> /\ saved_by = <<>>
    /\ save_ids = {} /\ last_saved = NoState /\ raised = <<>> /\ loaded = None

\* no parser call is under way
NoParse == pphase = "idle" /\ text = <<>> /\ dflt = None /\ parsed = None

\* nothing has been called outside a run
NoArg == "<no argument>"
NoOp == [op |-> "none", domain |-> NoArg, query |-> NoArg, ok |-> TRUE]
NoInstance == obj = NoState /\ vop = NoOp
NoKeyCall ==
    /\ kcall = [service_name |-> <<>>, user_id |-> NoStr, supabase |-> "ok", table |-> <<>>,
                environ |-> {}]
    /\ kret = <<"not called", <<>>>>
NoChat == chat = {} /\ now = 1 /\ chat_log = <<>>
NotQueried == <<"not called", <<>>>>
NoQuery ==
    /\ qcall = [op |-> "none", user_id |-> NoStr, state_id |-> NoStr,
                file_identifier |-> NoStr, table |-> {}, existing |-> {}]
    /\ qret = NotQueried
NoRerun == rr = [phase |-> "idle"]
NoFetch == fc = [phase |-> "idle"]
NoCollect == co = [phase |-> "idle"]
NoGateway == gw = [phase |-> "idle"]
NoRuns == cr = [phase |-> "idle"]
NoChart == ch = [phase |-> "idle"]
NoReport == rp = [phase |-> "idle"]
NoInsights == ci = [phase |-> "idle"]
NoChatCall == cw = [phase |-> "idle"]
NoMongo == mg = [phase |-> "idle"]
NoKeywords == tk = [phase |-> "idle"]
NoExtras == NoRuns /\ NoChart /\ NoReport /\ NoInsights /\ NoChatCall /\ NoMongo /\ NoKeywords
NoOthers == NoRerun /\ NoFetch /\ NoCollect /\ NoGateway /\ NoExtras
NoCalls == NoInstance /\ NoKeyCall /\ NoChat /\ NoQuery /\ NoOthers

ParserInit ==
    /\ pphase = "idle"
    /\ text = <<>>
    /\ dflt \in ParserDefaults
    /\ parsed = None
    /\ NoRun
    /\ NoCalls

ParserWrite ==
    /\ pphase = "idle"
    /\ Len(text) < MaxLen
    /\ \E c \in Alphabet : text' = Append(text, c)
    /\ UNCHANGED <<pphase, dflt, parsed>>
    /\ UNCHANGED <<rvars, cvars>>

ParserCall ==
    /\ pphase = "idle"
    /\ parsed' = llm_json_parser_robust(text, dflt)
    /\ pphase' = "done"
    /\ UNCHANGED <<text, dflt>>
    /\ UNCHANGED <<rvars, cvars>>

ParserNext == ParserWrite \/ ParserCall

SpecParser == ParserInit /\ [][ParserNext]_vars

(***************************************************************************)
(* One call of run_market_intelligence_agent.  The environment of a run:   *)
(*   chart_libs  whether matplotlib, seaborn, pandas and numpy imported    *)
(*   llm         "up": a call may raise or answer with any text;           *)
(*               "steady": every call answers as asked;                    *)
(*               "down": every call raises (no credential)                 *)
(*   net         "up": a search or fetch may fail or succeed;              *)
(*               "down": every one fails                                   *)
(*   disk        "flaky": an artifact write may fail                       *)
(*   db          "flaky": a database statement may fail                    *)
(*   dirs        "flaky": a directory creation may fail                    *)
(* The environments explored vary one collaborator at a time.              *)
(***************************************************************************)
Environments ==
    { [chart_libs |-> c, llm |-> e[1], net |-> e[2], disk |-> e[3], db |-> e[4],
       dirs |-> e[5]] :
        c \in BOOLEAN,
        e \in { <<"up", "down", "ok", "ok", "ok">>, <<"down", "up", "ok", "ok", "ok">>,
                <<"steady", "down", "flaky", "ok", "ok">>,
                <<"down", "down", "ok", "flaky", "ok">>,
                <<"down", "down", "ok", "ok", "flaky">> } }

DomainInputs == {"EdTech", "Ed!Tech"}
QueryInputs == {"AI tutors", "ab"}
QuestionInputs == {NoStr, "What next?"}
UserInputs == {"user1"}

WriteOutcomes == IF env.disk = "flaky" THEN BOOLEAN ELSE {TRUE}
CommitOutcomes == IF env.db = "flaky" THEN BOOLEAN ELSE {TRUE}
DirOutcomes == IF env.dirs = "flaky" THEN BOOLEAN ELSE {TRUE}
LLMOutcomes(texts, good) ==
    CASE env.llm = "down"   -> {Raises("ValueError")}
      [] env.llm = "steady" -> {Answers(good)}
      [] OTHER              -> {Raises("ValueError"), Raises("Exception")}
                               \cup {Answers(t) : t \in texts}
SearchOutcomes == IF env.net = "down" THEN {"raise"} ELSE {"raise", "urls"}
DirectOutcomes == IF env.net = "down" THEN {<<>>} ELSE DirectArticles

\* how the pipeline is entered: a direct call of run_market_intelligence_agent
\* (as the command line does), or a POST to /analyze
EntryPaths == {"run_market_intelligence_agent", "/analyze"}

InitWith(entries) ==
    /\ pphase = "idle" /\ text = <<>> /\ dflt = None /\ parsed = None
    /\ pc = "start" /\ node = EntryPoint /\ cpc = "begin" /\ attempts = 0 /\ loc = {}
    /\ inp \in [query_str : QueryInputs, market_domain_str : DomainInputs,
                question_str : QuestionInputs, user_id : UserInputs, entry : entries]
    /\ env \in Environments
    /\ st = NoState /\ db = {} /\ fs = {} /\ vs_index = <<>> /\ error_state_id = NoStr
    /\ result = NoResult /\ escaped = FALSE /\ executed = <<>> /\ saved_by = <<>>
    /\ save_ids = {} /\ last_saved = NoState /\ raised = <<>> /\ loaded = None
    /\ NoCalls

Init == InitWith({"run_market_intelligence_agent"})

\* a node returned: the graph hands its state to the node the edge names
Return(name, s) ==
    /\ st' = s
    /\ node' = Edge[name]
    /\ pc' = IF Edge[name] = END THEN "finish" ELSE "graph"
    /\ UNCHANGED <<result, escaped, raised>>

\* the node called save_state(s)
Save(name, s, committed) ==
    /\ db' = save_state(db, s, committed)
    /\ saved_by' = Append(saved_by, name)
    /\ save_ids' = save_ids \cup {s.state_id}
    /\ last_saved' = s

NoSave == UNCHANGED <<db, saved_by, save_ids, last_saved>>

\* "except Exception as e_agent_run": the error report is written if it can be,
\* then the failure result is built; get_agent_base_reports_dir is called again,
\* outside the inner try, when error_report_dir_path was set
ExceptHandler(where, e, eid, files) ==
    \E base_ok \in DirOutcomes, dir_ok \in DirOutcomes, wrote \in WriteOutcomes,
       base_ok_again \in DirOutcomes :
        LET error_report_dir_path == IF base_ok THEN ErrorDir ELSE NoPath
            error_report_file_path == IF base_ok /\ dir_ok THEN ErrorFile ELSE NoPath
        IN  /\ vs_index' = vs_index
            /\ fs' = files \cup (IF base_ok THEN {BaseDir} ELSE {})
                           \cup (IF base_ok /\ dir_ok THEN {ErrorDir} ELSE {})
                           \cup (IF base_ok /\ dir_ok /\ wrote THEN {ErrorFile} ELSE {})
            /\ IF base_ok /\ ~base_ok_again
               THEN escaped' = TRUE /\ result' = NoResult
               ELSE /\ escaped' = FALSE
                    /\ result' = FailureResult(eid, error_report_dir_path,
                                               error_report_file_path, e.msg)
            /\ raised' = Append(raised, <<where, e.type>>)
            /\ pc' = "returned"

\* lines 2158-2168: the failure id, then the initial state
run_market_intelligence_agent(query_str, market_domain_str, question_str, user_id) ==
    /\ LET eid == uuid4({r.id : r \in db})
           m == MarketIntelligenceState(
                    FieldDefaults(uuid4({r.id : r \in db} \cup {eid}), market_domain_str,
                                  query_str, question_str, user_id))
       IN  /\ error_state_id' = eid
           /\ IF m.ok
              THEN /\ st' = m.val /\ pc' = "graph" /\ node' = EntryPoint
                   /\ UNCHANGED <<result, escaped, raised, fs, vs_index>>
              ELSE /\ ExceptHandler("initial_state", Exc("ValidationError", m.val), eid, fs)
                   /\ UNCHANGED <<st, node>>
    /\ NoSave
    /\ UNCHANGED <<pvars, cvars, cpc, attempts, loc, inp, env, executed, loaded>>

RunStart ==
    /\ pc = "start" /\ inp.entry = "run_market_intelligence_agent"
    /\ run_market_intelligence_agent(inp.query_str, inp.market_domain_str, inp.question_str,
                                     inp.user_id)

\* MarketIntelligenceAgent.run_analysis(self, query, market_domain, question=None)
\* hands its three arguments on and has no parameter for the owner; a call
\* with a keyword that is none of its parameters raises TypeError
run_analysis_parameters == {"query", "market_domain", "question"}
run_analysis(keywords) ==
    IF \A k \in DOMAIN keywords : k \in run_analysis_parameters
    THEN run_market_intelligence_agent(keywords.query, keywords.market_domain,
                                       keywords.question, NoStr)
    ELSE /\ pc' = "http_500"
         /\ UNCHANGED <<pvars, cvars, node, cpc, attempts, loc, inp, env, st, db, fs, vs_index,
                        error_state_id, result, escaped, executed, saved_by, save_ids,
                        last_saved, raised, loaded>>

\* POST /analyze, main.py lines 201-226: the exception of the call is answered
\* with HTTPException(status_code=500)
analyze_market ==
    /\ pc = "start" /\ inp.entry = "/analyze"
    /\ run_analysis([query_str |-> inp.query_str, market_domain_str |-> inp.market_domain_str,
                     question_str |-> inp.question_str, user_id |-> inp.user_id])

\* market_data_collector, lines 1134-1146: the two directories
CollectorBegin ==
    /\ pc = "graph" /\ node = "market_data_collector" /\ cpc = "begin"
    /\ executed' = Append(executed, "market_data_collector")
    /\ \E base_ok \in DirOutcomes, run_ok \in DirOutcomes :
          IF ~base_ok
          THEN /\ ExceptHandler("market_data_collector", Exc("OSError", "makedirs failed"),
                                error_state_id, fs)
               /\ UNCHANGED <<st, node, cpc>>
          ELSE IF ~run_ok
          THEN /\ ExceptHandler("market_data_collector",
                                Exc("IOError", "Cannot create report directory"),
                                error_state_id, fs \cup {BaseDir})
               /\ UNCHANGED <<st, node, cpc>>
          ELSE /\ st' = [st EXCEPT !.report_dir = RunDir]
               /\ vs_index' = vs_index
               /\ fs' = fs \cup {BaseDir, RunDir}
               /\ cpc' = "tavily_news"
               /\ UNCHANGED <<pc, node, result, escaped, raised>>
    /\ NoSave
    /\ UNCHANGED <<pvars, cvars, attempts, loc, inp, env, error_state_id, loaded>>

\* one attempt of the @retry-wrapped Tavily search: it returns URLs, or raises; the
\* third raise in a row leaves the wrapper and the collector's except keeps the
\* empty list
SearchAttempt(next_cpc) ==
    /\ \E outcome \in SearchOutcomes, urls \in SUBSET URLs :
          IF outcome = "raise"
          THEN /\ urls = {}
               /\ IF RetryStops(attempts + 1)
                  THEN cpc' = next_cpc /\ attempts' = 0
                  ELSE /\ cpc' = cpc
                       /\ attempts' = IF attempts < stop_after_attempt
                                      THEN attempts + 1 ELSE attempts
               /\ loc' = loc
          ELSE /\ loc' = loc \cup urls
               /\ cpc' = next_cpc
               /\ attempts' = 0
    /\ NoSave
    /\ UNCHANGED <<pvars, cvars, pc, node, inp, env, st, fs, vs_index, error_state_id, result, escaped,
                   executed, raised, loaded>>

\* "if SerpApiClient is not None" is read when the Tavily searches are over
search_with_tavily ==
    /\ pc = "graph" /\ node = "market_data_collector"
    /\ \/ cpc = "tavily_news" /\ SearchAttempt("tavily_comp")
       \/ cpc = "tavily_comp" /\ \E serp_lib \in BOOLEAN :
                                    SearchAttempt(IF serp_lib THEN "serp_news" ELSE "rest")

\* the SerpAPI search catches its own failures and returns the empty list, so its
\* @retry wrapper never sees a raise: one attempt
search_with_serpapi ==
    /\ pc = "graph" /\ node = "market_data_collector"
    /\ cpc \in {"serp_news", "serp_comp"}
    /\ cpc' = IF cpc = "serp_news" THEN "serp_comp" ELSE "rest"
    /\ \E outcome \in SearchOutcomes, urls \in SUBSET URLs :
          /\ outcome = "raise" => urls = {}
          /\ loc' = loc \cup urls
    /\ NoSave
    /\ UNCHANGED <<pvars, cvars, pc, node, attempts, inp, env, st, fs, vs_index, error_state_id, result,
                   escaped, executed, raised, loaded>>

\* market_data_collector, lines 1188-1264
CollectorRest ==
    /\ pc = "graph" /\ node = "market_data_collector" /\ cpc = "rest"
    /\ \E direct \in DirectOutcomes, order \in Orderings(loc), fetch_ok \in [URLs -> FetchOutcomes],
          wrote_json \in WriteOutcomes, wrote_csv \in WriteOutcomes, committed \in CommitOutcomes :
          LET all_fetched_data == FetchAll(order, direct, fetch_ok)
              s1 == [st EXCEPT !.financial_data = <<>>, !.raw_news_data = all_fetched_data,
                               !.competitor_data = all_fetched_data]
              s2 == IF wrote_json
                    THEN [s1 EXCEPT !.download_files =
                             SetItem(@, "raw_data_json", PathStr(DataJson(st.report_dir)))]
                    ELSE s1
              s3 == IF wrote_csv
                    THEN [s2 EXCEPT !.download_files =
                             SetItem(@, "raw_data_csv", PathStr(DataCsv(st.report_dir)))]
                    ELSE s2
          IN  /\ vs_index' = vs_index
              /\ fs' = fs \cup (IF wrote_json THEN {DataJson(st.report_dir)} ELSE {})
                          \cup (IF wrote_csv THEN {DataCsv(st.report_dir)} ELSE {})
              /\ Save("market_data_collector", s3, committed)
              /\ Return("market_data_collector", s3)
    /\ cpc' = "begin" /\ loc' = {} /\ attempts' = 0
    /\ UNCHANGED <<pvars, cvars, inp, env, error_state_id, executed, loaded>>

\* what a node after the collector leaves alone
StageFrame == UNCHANGED <<pvars, cvars, cpc, attempts, loc, inp, env, error_state_id, loaded>>

AnalysisNode(name, field, default, name_key, level_key, file_key, file_name) ==
    /\ pc = "graph" /\ node = name
    /\ executed' = Append(executed, name)
    /\ \E outcome \in LLMOutcomes(ListAnswers(name_key, level_key),
                                   GoodAnswer(name_key, level_key)),
          wrote \in WriteOutcomes, committed \in CommitOutcomes :
          LET r == AnalysisStage(st, fs, field, default, outcome, file_key, file_name, wrote)
          IN  /\ vs_index' = vs_index
              /\ fs' = r.files
              /\ Save(name, r.state, committed)
              /\ Return(name, r.state)
    /\ StageFrame

trend_analyzer ==
    AnalysisNode("trend_analyzer", "market_trends", default_trends_list,
                 "trend_name", "estimated_impact", "trends_json", "market_trends.json")

opportunity_identifier ==
    AnalysisNode("opportunity_identifier", "opportunities", default_ops,
                 "opportunity_name", "estimated_potential", "opportunities_json",
                 "opportunities.json")

strategy_recommender ==
    AnalysisNode("strategy_recommender", "strategic_recommendations", default_strats,
                 "strategy_title", "priority_level", "strategies_json", "strategies.json")

customer_insights_generator ==
    AnalysisNode("customer_insights_generator", "customer_insights", default_insights,
                 "segment_name", "growth_potential", "customer_insights_json",
                 "customer_insights.json")

report_template_generator ==
    /\ pc = "graph" /\ node = "report_template_generator"
    /\ executed' = Append(executed, "report_template_generator")
    /\ \E outcome \in LLMOutcomes(TemplateAnswers, <<"T">>), committed \in CommitOutcomes :
          LET s == TemplateStage(st, outcome)
          IN  /\ Save("report_template_generator", s, committed)
              /\ Return("report_template_generator", s)
    /\ vs_index' = vs_index
    /\ fs' = fs
    /\ StageFrame

\* lines 1683-1686 run only when report_dir is unset: they create the fallback
\* directory outside any try
setup_vector_store ==
    /\ pc = "graph" /\ node = "setup_vector_store"
    /\ executed' = Append(executed, "setup_vector_store")
    /\ \E dir_ok \in DirOutcomes, read_ok \in WriteOutcomes, built \in BOOLEAN,
          committed \in CommitOutcomes :
          IF st.report_dir = NoPath /\ ~dir_ok
          THEN /\ ExceptHandler("setup_vector_store", Exc("OSError", "makedirs failed"),
                                error_state_id, fs)
               /\ NoSave
               /\ UNCHANGED <<st, node>>
          ELSE LET s0 == IF st.report_dir = NoPath
                         THEN [st EXCEPT !.report_dir = <<"reports1", "VS_SETUP_FALLBACK_DIR">>]
                         ELSE st
                   r == VectorStoreStage(s0, fs \cup {s0.report_dir}, read_ok, built)
               IN  /\ fs' = r.files
                   /\ vs_index' = IF built THEN r.index ELSE vs_index
                   /\ Save("setup_vector_store", r.state, committed)
                   /\ Return("setup_vector_store", r.state)
    /\ StageFrame

rag_query_handler ==
    /\ pc = "graph" /\ node = "rag_query_handler"
    /\ executed' = Append(executed, "rag_query_handler")
    /\ \E outcome \in RagOutcomes, committed \in CommitOutcomes :
          LET s == RagStage(st, fs, outcome)
          IN  /\ Save("rag_query_handler", s, committed)
              /\ Return("rag_query_handler", s)
    /\ vs_index' = vs_index
    /\ fs' = fs
    /\ StageFrame

\* lines 1796-1802 return before save_state is reached
generate_charts ==
    /\ pc = "graph" /\ node = "generate_charts"
    /\ executed' = Append(executed, "generate_charts")
    /\ IF ~env.chart_libs \/ st.report_dir = NoPath
       THEN /\ NoSave
            /\ vs_index' = vs_index
            /\ fs' = fs
            /\ Return("generate_charts", st)
       ELSE \E fail \in RenderFailures, committed \in CommitOutcomes :
               LET r == ChartStage(st, fs, fail)
               IN  /\ vs_index' = vs_index
                   /\ fs' = r.files
                   /\ Save("generate_charts", r.state, committed)
                   /\ Return("generate_charts", r.state)
    /\ StageFrame

\* lines 1958-1960 return before save_state is reached
final_report_generator ==
    /\ pc = "graph" /\ node = "final_report_generator"
    /\ executed' = Append(executed, "final_report_generator")
    /\ IF st.report_dir = NoPath
       THEN /\ NoSave
            /\ vs_index' = vs_index
            /\ fs' = fs
            /\ Return("final_report_generator", st)
       ELSE \E wrote_report \in WriteOutcomes, wrote_readme \in WriteOutcomes,
               committed \in CommitOutcomes :
               LET r == ReportStage(st, fs, wrote_report, wrote_readme)
               IN  /\ vs_index' = vs_index
                   /\ fs' = r.files
                   /\ Save("final_report_generator", r.state, committed)
                   /\ Return("final_report_generator", r.state)
    /\ StageFrame

\* lines 2199-2229: the final state is validated again, then the success result
RunFinish ==
    /\ pc = "finish"
    /\ LET m == MarketIntelligenceState(st)
       IN  IF ~m.ok
           THEN ExceptHandler("final_state", Exc("ValidationError", m.val), error_state_id, fs)
           ELSE \E base_ok \in DirOutcomes :
                   IF m.val.report_dir # NoPath /\ ~base_ok
                   THEN ExceptHandler("return_data", Exc("OSError", "makedirs failed"),
                                      error_state_id, fs)
                   ELSE /\ result' = SuccessResult(m.val)
                        /\ pc' = "returned"
                        /\ vs_index' = vs_index
                        /\ fs' = fs
                        /\ UNCHANGED <<escaped, raised>>
    /\ NoSave
    /\ UNCHANGED <<pvars, cvars, node, cpc, attempts, loc, inp, env, st, error_state_id, executed, loaded>>

\* once the run is over a caller loads the state the result names, or one that was saved
LoadState ==
    /\ pc = "returned"
    /\ loaded = None
    /\ \E id \in (save_ids \cup {result.state_id}) \ {NoStr}, readable \in CommitOutcomes :
          loaded' = <<id, load_state(db, id, readable)>>
    /\ UNCHANGED <<pvars, cvars, pc, node, cpc, attempts, loc, inp, env, st, db, fs, vs_index, error_state_id,
                   result, escaped, executed, saved_by, save_ids, last_saved, raised>>

Next ==
    \/ RunStart
    \/ CollectorBegin
    \/ search_with_tavily
    \/ search_with_serpapi
    \/ CollectorRest
    \/ trend_analyzer
    \/ opportunity_identifier
    \/ strategy_recommender
    \/ customer_insights_generator
    \/ report_template_generator
    \/ setup_vector_store
    \/ rag_query_handler
    \/ generate_charts
    \/ final_report_generator
    \/ RunFinish
    \/ LoadState

Spec == Init /\ [][Next]_vars

\* every step of a run is a call that returns or fails, so the run keeps moving
\* (the fair runs explored are those in which the model provider is down)
FairInit == Init /\ env.llm = "down"
SpecFair == FairInit /\ [][Next]_vars /\ WF_vars(Next)

\* The process is ended (killed, or the awaiting task cancelled) while the stage
\* that app.ainvoke is about to run, or is running, has not reached its
\* save_state: what the stage did in memory is gone, the table is as it was.
Abort ==
    /\ pc = "graph"
    /\ pc' = "aborted"
    /\ UNCHANGED <<pvars, cvars, node, cpc, attempts, loc, inp, env, st, db, fs, vs_index,
                   error_state_id, result, escaped, executed, saved_by, save_ids,
                   last_saved, raised, loaded>>

AbortNext == Next \/ Abort
SpecAbort == Init /\ [][AbortNext]_vars

\* a request on either entry path
EntryInit == InitWith(EntryPaths)
EntryNext == Next \/ analyze_market
SpecEntry == EntryInit /\ [][EntryNext]_vars

(***************************************************************************)
(* A state built and reassigned outside a run.  The class is configured    *)
(* with validate_assignment, so "obj.market_domain = v" and                *)
(* "obj.query = v" run the field's validator; a rejected value raises and  *)
(* leaves the instance as it was.                                          *)
(***************************************************************************)
DomainValues == {"Tech!!", "Tech-2025", "EdTech", " EdTech", "AI tutors", " ", ""}
QueryValues == {NoStr, "", " ", "ab", " ab ", "ai market", " ai market "}

StateInit ==
    /\ NoParse
    /\ NoRun
    /\ NoCalls

\* MarketIntelligenceState(market_domain=d, query=q)
StateConstruct ==
    /\ obj = NoState
    /\ \E d \in DomainValues, q \in QueryValues :
          LET m == MarketIntelligenceState(FieldDefaults("id1", d, q, NoStr, NoStr))
          IN  /\ obj' = IF m.ok THEN m.val ELSE obj
              /\ vop' = [op |-> "construct", domain |-> d, query |-> q, ok |-> m.ok]
    /\ UNCHANGED <<pvars, rvars, kvars, hvars, qvars, ovars>>

\* obj.market_domain = d
StateAssignDomain ==
    /\ obj # NoState
    /\ \E d \in DomainValues :
          LET v == validate_market_domain_value(d)
          IN  /\ obj' = IF v.ok THEN [obj EXCEPT !.market_domain = v.val] ELSE obj
              /\ vop' = [op |-> "assign_domain", domain |-> d, query |-> NoArg, ok |-> v.ok]
    /\ UNCHANGED <<pvars, rvars, kvars, hvars, qvars, ovars>>

\* obj.query = q
StateAssignQuery ==
    /\ obj # NoState
    /\ \E q \in QueryValues :
          LET v == validate_query_value(q)
          IN  /\ obj' = IF v.ok THEN [obj EXCEPT !.query = v.val] ELSE obj
              /\ vop' = [op |-> "assign_query", domain |-> NoArg, query |-> q, ok |-> v.ok]
    /\ UNCHANGED <<pvars, rvars, kvars, hvars, qvars, ovars>>

StateNext == StateConstruct \/ StateAssignDomain \/ StateAssignQuery

SpecState == StateInit /\ [][StateNext]_vars

(***************************************************************************)
(* One call of get_api_key outside a run: any of the services below, with  *)
(* or without an owner, over a data_sources table of at most MaxSources    *)
(* rows and one of a few environments.                                     *)
(***************************************************************************)
Services == {<<"T", "A", "V", "I", "L", "Y">>, <<"N", "E", "W", "S", "_", "A", "P", "I">>, <<"G", "O", "O", "G", "L", "E", "_", "G", "E", "M", "I", "N", "I">>, <<"M", "E", "D", "I", "A", "S", "T", "A", "C", "K">>}
Owners == {NoStr, "user1"}
Cfg(apiKey, api_key) == <<"dict", [apiKey |-> apiKey, api_key |-> api_key]>>
Source(user, name, type, status, config) ==
    [user_id |-> user, name |-> name, type |-> type, status |-> status, config |-> config]
SourceRows ==
    { Source("user1", <<"T", "a", "v", "i", "l", "y">>, <<"s", "e", "a", "r", "c", "h">>, "active", Cfg(<<" ", "t", "v", "-", "d", "b", " ">>, <<>>)),
      Source("user1", <<"M", "y", " ", "N", "e", "w", "s", " ", "A", "P", "I">>, <<"n", "e", "w", "s">>, "active", Cfg(<<>>, <<"n", "e", "w", "s", "-", "d", "b">>)),
      Source("user1", <<"T", "a", "v", "i", "l", "y">>, <<"s", "e", "a", "r", "c", "h">>, "active", Cfg(<<" ">>, <<>>)),
      Source("user1", <<"O", "p", "e", "n", "A", "I">>, <<"l", "l", "m">>, "active", Cfg(<<"o", "a", "-", "d", "b">>, <<>>)),
      Source("user1", <<"G", "e", "m", "i", "n", "i">>, <<"a", "i">>, "active", None),
      Source("user1", <<"T", "a", "v", "i", "l", "y">>, <<"s", "e", "a", "r", "c", "h">>, "inactive", Cfg(<<"t", "v", "-", "o", "l", "d">>, <<>>)),
      Source("user2", <<"T", "a", "v", "i", "l", "y">>, <<"s", "e", "a", "r", "c", "h">>, "active", Cfg(<<"t", "v", "-", "u", "s", "e", "r", "2">>, <<>>)) }
MaxSources == 2
Tables ==
    UNION { {t \in [1..n -> SourceRows] : \A i, j \in 1..n : i # j => t[i] # t[j]} :
            n \in 0..MaxSources }
Environs ==
    { {},
      { <<<<"T", "A", "V", "I", "L", "Y", "_", "A", "P", "I", "_", "K", "E", "Y">>, <<"t", "v", "-", "e", "n", "v">>>>, <<<<"G", "O", "O", "G", "L", "E", "_", "A", "P", "I", "_", "K", "E", "Y">>, <<"g", "-", "e", "n", "v">>>>, <<<<"N", "E", "W", "S", "_", "A", "P", "I", "_", "K", "E", "Y">>, <<" ">>>> },
      { <<<<"G", "O", "O", "G", "L", "E", "_", "A", "P", "I", "_", "K", "E", "Y", "_", "N", "A", "M", "E">>, <<"M", "Y", "_", "G", "O", "O", "G", "L", "E">>>>, <<<<"M", "Y", "_", "G", "O", "O", "G", "L", "E">>, <<"g", "2", "-", "e", "n", "v">>>> },
      { <<<<"M", "E", "D", "I", "A", "S", "T", "A", "C", "K", "_", "A", "P", "I", "_", "K", "E", "Y">>, <<" ", "m", "s", "-", "e", "n", "v", " ">>>>, <<<<"G", "O", "O", "G", "L", "E", "_", "A", "P", "I", "_", "K", "E", "Y">>, <<>>>> } }

KeyInit ==
    /\ NoParse /\ NoRun /\ NoInstance /\ NoChat /\ NoQuery /\ NoOthers
    /\ kcall \in [service_name : Services, user_id : Owners,
                   supabase : {"ok", "unavailable", "error"}, table : Tables,
                   environ : Environs]
    /\ kret = <<"not called", <<>>>>

KeyCall ==
    /\ kret = <<"not called", <<>>>>
    /\ kret' = get_api_key(kcall.service_name, kcall.user_id, kcall.supabase, kcall.table,
                           kcall.environ)
    /\ UNCHANGED <<pvars, rvars, svars, hvars, qvars, ovars, kcall>>

KeyNext == KeyCall

SpecKeys == KeyInit /\ [][KeyNext]_vars

(***************************************************************************)
(* Chat turns saved outside a run.  datetime.now() is the wall clock in    *)
(* local time: between two saves it may have moved on, may read the same,  *)
(* and may have been set back.                                             *)
(***************************************************************************)
Sessions == {"s1", "s2"}
MessageTypes == {"user", "ai"}
Contents == {"hello", "again"}
MaxTurns == 3
MaxTime == 3

ChatInit ==
    /\ NoParse /\ NoRun /\ NoInstance /\ NoKeyCall /\ NoQuery /\ NoOthers
    /\ NoChat

SaveChatMessage ==
    /\ Len(chat_log) < MaxTurns
    /\ \E s \in Sessions, t \in MessageTypes, c \in Contents :
          /\ chat' = save_chat_message(chat, s, t, c, now)
          /\ chat_log' = Append(chat_log, [session_id |-> s, type |-> t, content |-> c])
    /\ UNCHANGED <<pvars, rvars, svars, kvars, qvars, ovars, now>>

ClockAdvance ==
    /\ now < MaxTime
    /\ now' = now + 1
    /\ UNCHANGED <<pvars, rvars, svars, kvars, qvars, ovars, chat, chat_log>>

ClockSetBack ==
    /\ now > 1
    /\ now' = now - 1
    /\ UNCHANGED <<pvars, rvars, svars, kvars, qvars, ovars, chat, chat_log>>

ChatNext == SaveChatMessage \/ ClockAdvance \/ ClockSetBack

SpecChat == ChatInit /\ [][ChatNext]_vars

(***************************************************************************)
(* The owner-scoped queries on the table "states".  A stored path is a     *)
(* record [dir, base] (dir a tuple of characters) or NullPath; state_data  *)
(* holds download_files as the sequence of its (category, path) items and  *)
(* chart_paths as a sequence of paths.                                     *)
(***************************************************************************)
NullPath == [dir |-> <<>>, base |-> NoStr]
abspath(p) == p.dir \o <<"/", p.base>>
basename(p) == p.base
reports_base_dir == <<"/", "r", "e", "p", "o", "r", "t", "s">>
ListLimit == 50

\* a row that would hand out every state to every user
owned_by_anyone(db_user_id, user_id) == TRUE

\* SQL "user_id = ?": a comparison with NULL is not true
owned_by(db_user_id, user_id) ==
    db_user_id # NoStr /\ user_id # NoStr /\ db_user_id = user_id

QueryNone == <<"none", <<>>>>

list_user_analysis_states(rows, user_id) ==
    LET mine == {r \in rows : owned_by(r.user_id, user_id)}
        n == Cardinality(mine)
        sorted == CHOOSE q \in [1..n -> mine] :
                      /\ \A i, j \in 1..n : i # j => q[i] # q[j]
                      /\ \A i, j \in 1..n : i < j => q[i].created_at >= q[j].created_at
        m == IF n < ListLimit THEN n ELSE ListLimit
    IN  <<"list", [i \in 1..m |->
                     [state_id |-> sorted[i].id, market_domain |-> sorted[i].market_domain,
                      query |-> sorted[i].query, created_at |-> sorted[i].created_at,
                      user_id |-> sorted[i].user_id]]>>

DownloadItems(state_data) ==
    LET files == SelectSeq(state_data.download_files, LAMBDA item : item[2] # NullPath)
        charts == SelectSeq(state_data.chart_paths, LAMBDA p : p # NullPath)
    IN  [i \in 1..Len(files) |-> [category |-> files[i][1], filename |-> basename(files[i][2])]]
        \o [i \in 1..Len(charts) |->
               [category |-> "chart", filename |-> basename(charts[i])]]

get_state_download_info(rows, state_id, user_id) ==
    LET hit == {r \in rows : r.id = state_id /\ owned_by(r.user_id, user_id)}
    IN  IF hit = {} THEN QueryNone
        ELSE LET row == CHOOSE r \in hit : TRUE
             IN  IF row.user_id # user_id THEN QueryNone
                 ELSE <<"info", [state_id |-> state_id, query |-> row.query,
                                 market_domain |-> row.market_domain,
                                 created_at |-> row.created_at,
                                 files |-> DownloadItems(row.state_data)]>>

TargetPath(state_data, file_identifier) ==
    LET named == SelectSeq(state_data.download_files, LAMBDA item : item[1] = file_identifier)
        charts == SelectSeq(state_data.chart_paths,
                            LAMBDA p : p # NullPath /\ basename(p) = file_identifier)
    IN  IF named # <<>> /\ named[Len(named)][2] # NullPath THEN named[Len(named)][2]
        ELSE IF charts # <<>> THEN charts[1]
        ELSE NullPath

get_download_file_path(rows, state_id, user_id, file_identifier, existing) ==
    LET hit == {r \in rows : r.id = state_id /\ owned_by(r.user_id, user_id)}
    IN  IF hit = {} THEN QueryNone
        ELSE LET row == CHOOSE r \in hit : TRUE
                 target_path == TargetPath(row.state_data, file_identifier)
             IN  IF target_path = NullPath THEN QueryNone
                 ELSE IF ~StartsWith(abspath(target_path), reports_base_dir) THEN QueryNone
                 ELSE IF target_path \notin existing THEN QueryNone
                 ELSE <<"path", abspath(target_path)>>

(***************************************************************************)
(* One owner-scoped query against a table of stored states.                *)
(***************************************************************************)
StateIds == {"st1", "st2"}
Requesters == {"user1", "user2", NoStr}
PathR1 == [dir |-> reports_base_dir, base |-> "report_st1.md"]
PathC1 == [dir |-> reports_base_dir, base |-> "chart_st1.png"]
PathR2 == [dir |-> reports_base_dir \o <<"_", "o", "l", "d">>, base |-> "report_st2.md"]
PathC2 == [dir |-> <<"/", "e", "t", "c">>, base |-> "chart_st2.png"]
StateDataOf ==
    [id \in StateIds |->
        IF id = "st1"
        THEN { [download_files |-> <<<<"report", PathR1>>, <<"data_csv", NullPath>>>>,
                chart_paths |-> <<PathC1>>],
               [download_files |-> <<>>, chart_paths |-> <<>>] }
        ELSE { [download_files |-> <<<<"report", PathR2>>>>, chart_paths |-> <<PathC2>>],
               [download_files |-> <<<<"report", NullPath>>>>, chart_paths |-> <<PathC1>>] }]
StoredRows(id) ==
    [id : {id}, user_id : Requesters,
     market_domain : {IF id = "st1" THEN "EdTech" ELSE "FinTech"},
     query : {IF id = "st1" THEN "ai tutors" ELSE "ai lending"},
     created_at : {IF id = "st1" THEN 1 ELSE 2},
     state_data : StateDataOf[id]]
\* id is the primary key
StoredTables ==
    { t \in SUBSET (UNION {StoredRows(id) : id \in StateIds}) :
        \A r1, r2 \in t : r1.id = r2.id => r1 = r2 }
FileIdentifiers == {"report", "chart_st1.png", "chart_st2.png"}
Disks == {{}, {PathR1, PathC1, PathR2, PathC2}}

QueryInit ==
    /\ NoParse /\ NoRun /\ NoInstance /\ NoKeyCall /\ NoChat /\ NoOthers
    /\ qcall \in [op : {"list", "info", "path"}, user_id : Requesters, state_id : StateIds,
                   file_identifier : FileIdentifiers, table : StoredTables, existing : Disks]
    /\ qcall.op = "list" => qcall.state_id = "st1"
    /\ qcall.op # "path" => qcall.file_identifier = "report" /\ qcall.existing = {}
    /\ qret = NotQueried

QueryCall ==
    /\ qret = NotQueried
    /\ qret' = CASE qcall.op = "list" -> list_user_analysis_states(qcall.table, qcall.user_id)
                  [] qcall.op = "info" ->
                        get_state_download_info(qcall.table, qcall.state_id, qcall.user_id)
                  [] OTHER ->
                        get_download_file_path(qcall.table, qcall.state_id, qcall.user_id,
                                               qcall.file_identifier, qcall.existing)
    /\ UNCHANGED <<pvars, rvars, svars, kvars, hvars, ovars, qcall>>

QueryNext == QueryCall

SpecQueries == QueryInit /\ [][QueryNext]_vars

(***************************************************************************)
(* One stage called a second time on the state it returned, with its       *)
(* collaborators responding as they did the first time.                    *)
(***************************************************************************)
RerunStages == {"trend_analyzer", "report_template_generator", "setup_vector_store",
                "rag_query_handler", "generate_charts", "final_report_generator"}

Responses(stage) ==
    CASE stage = "trend_analyzer" ->
            {Raises("ValueError"), Answers(<<"a">>),
             Answers(GoodAnswer("trend_name", "estimated_impact"))} \X BOOLEAN
      [] stage = "report_template_generator" ->
            {Raises("ValueError")} \cup {Answers(t) : t \in TemplateAnswers}
      [] stage = "setup_vector_store" -> BOOLEAN \X BOOLEAN
      [] stage = "rag_query_handler" -> RagOutcomes
      [] stage = "generate_charts" -> RenderFailures
      [] OTHER -> BOOLEAN \X BOOLEAN

\* the stage's body up to save_state: [state, files]
StageCall(stage, s, files, response) ==
    CASE stage = "trend_analyzer" ->
            AnalysisStage(s, files, "market_trends", default_trends_list, response[1],
                          "trends_json", "market_trends.json", response[2])
      [] stage = "report_template_generator" ->
            [state |-> TemplateStage(s, response), files |-> files]
      [] stage = "setup_vector_store" ->
            LET r == VectorStoreStage(s, files, response[1], response[2])
            IN  [state |-> r.state, files |-> r.files]
      [] stage = "rag_query_handler" ->
            [state |-> RagStage(s, files, response), files |-> files]
      [] stage = "generate_charts" -> ChartStage(s, files, response)
      [] OTHER -> ReportStage(s, files, response[1], response[2])

RerunStates ==
    { [FieldDefaults("id1", "EdTech", "AI tutors", q, "user1") EXCEPT
          !.report_dir = RunDir, !.market_trends = t, !.customer_insights = c] :
        q \in QuestionInputs, t \in {<<>>, default_trends_list},
        c \in {<<>>, default_insights} }

RerunInit ==
    /\ NoParse /\ NoRun /\ NoInstance /\ NoKeyCall /\ NoChat /\ NoQuery /\ NoFetch
    /\ NoCollect /\ NoGateway /\ NoExtras
    /\ \E s \in RerunStates : rr = [phase |-> "input", state |-> s, files |-> {BaseDir, RunDir}]

RerunFirst ==
    /\ rr.phase = "input"
    /\ \E stage \in RerunStages :
          \E response \in Responses(stage) :
              LET r == StageCall(stage, rr.state, rr.files, response)
              IN  rr' = [phase |-> "once", stage |-> stage, response |-> response,
                         state |-> r.state, files |-> r.files]
    /\ UNCHANGED <<pvars, rvars, svars, kvars, hvars, qvars, fc, co, gw, xvars>>

RerunSecond ==
    /\ rr.phase = "once"
    /\ LET r == StageCall(rr.stage, rr.state, rr.files, rr.response)
       IN  rr' = [phase |-> "twice", stage |-> rr.stage, response |-> rr.response,
                  once |-> rr.state, state |-> r.state, files |-> r.files]
    /\ UNCHANGED <<pvars, rvars, svars, kvars, hvars, qvars, fc, co, gw, xvars>>

RerunNext == RerunFirst \/ RerunSecond

SpecRerun == RerunInit /\ [][RerunNext]_vars

(***************************************************************************)
(* The collector's loop over combined_unique_urls on its own: the list of  *)
(* URLs in the order list(set(...)) gave them, the articles the direct     *)
(* gateways returned (an article may carry no URL), and what               *)
(* fetch_url_content does with each URL.                                   *)
(***************************************************************************)
FetchURLs == {"u1", "u2", "u3"}
DirectLists == { <<>>, <<Article("u1")>>, <<Article("u1"), Article("u2")>>, <<Article(NoStr)>> }

FetchInit ==
    /\ NoParse /\ NoRun /\ NoInstance /\ NoKeyCall /\ NoChat /\ NoQuery /\ NoRerun
    /\ NoCollect /\ NoGateway /\ NoExtras
    /\ \E S \in SUBSET FetchURLs :
          \E order \in Orderings(S), direct \in DirectLists,
             fetch_ok \in [FetchURLs -> FetchOutcomes] :
              fc = [phase |-> "input", urls |-> order, direct |-> direct,
                    fetch_ok |-> fetch_ok]

FetchLoop ==
    /\ fc.phase = "input"
    /\ fc' = [fc EXCEPT !.phase = "done"] @@
              [all_fetched_data |-> FetchAll(fc.urls, fc.direct, fc.fetch_ok)]
    /\ UNCHANGED <<pvars, rvars, svars, kvars, hvars, qvars, rr, co, gw, xvars>>

FetchNext == FetchLoop

SpecFetch == FetchInit /\ [][FetchNext]_vars

(***************************************************************************)
(* The collector's calls of its backends on their own, lines 1158-1230:    *)
(* the two Tavily searches, the two SerpAPI searches, NewsAPI, MediaStack, *)
(* Financial Modeling Prep and Alpha Vantage.  A call returns results,     *)
(* returns the empty list, raises into the collector's try, or is skipped  *)
(* because its library is missing.                                         *)
(***************************************************************************)
Backends == {"tavily_news", "tavily_comp", "serp_news", "serp_comp", "newsapi", "mediastack",
             "fmp", "alphavantage"}
SearchBackends == {"tavily_news", "tavily_comp", "serp_news", "serp_comp"}
CallOutcomes == {"results", "empty", "raise"}
\* the backends the collector calls only behind "if <library> is not None"
Optional == {"serp_news", "serp_comp", "newsapi", "fmp", "alphavantage"}

MediaStackArticle(u) == [Article(u) EXCEPT !.source = "MediaStack"]
Financial(source) == [source |-> source, type |-> "company_profile", symbol |-> "AI",
                      data |-> "profile"]
\* what each backend returns when it has results; both news searches find "u1"
BackendResults ==
    [b \in Backends |->
        CASE b = "tavily_news"  -> <<"u1">>
          [] b = "tavily_comp"  -> <<"u2">>
          [] b = "serp_news"    -> <<"u1">>
          [] b = "serp_comp"    -> <<"u3">>
          [] b = "newsapi"      -> <<Article("n1")>>
          [] b = "mediastack"   -> <<MediaStackArticle("m1")>>
          [] b = "fmp"          -> <<Financial("FinancialModelingPrep")>>
          [] OTHER              -> <<Financial("AlphaVantage")>>]
\* what fetch_url_content does with the URLs of the searches
CollectFetch ==
    [u \in FetchURLs |-> CASE u = "u1" -> "loaded" [] u = "u2" -> "failed"
                            [] OTHER -> "not loaded"]

\* a faulty variant: one backend that raises empties what every backend returned
CalledAllOrNothing(outcomes, b) ==
    IF \E x \in Backends : outcomes[x] = "raise" THEN <<>>
    ELSE IF outcomes[b] = "results" THEN BackendResults[b] ELSE <<>>

\* "x = []; try: x = backend(...) except Exception: log": the list the collector
\* holds for a backend after its call
Called(outcomes, b) == IF outcomes[b] = "results" THEN BackendResults[b] ELSE <<>>

\* lines 1153-1230: the lists of the searches joined into a set, the articles of
\* the direct gateways, the financial items
Gather(outcomes) ==
    LET news_urls_list == Called(outcomes, "tavily_news")
        competitor_urls_list == Called(outcomes, "tavily_comp")
        serpapi_news_urls_list == Called(outcomes, "serp_news")
        serpapi_competitor_urls_list == Called(outcomes, "serp_comp")
        joined == news_urls_list \o competitor_urls_list \o serpapi_news_urls_list
                     \o serpapi_competitor_urls_list
    IN  [combined_unique_urls |-> {joined[i] : i \in DOMAIN joined},
         all_fetched_data |-> Called(outcomes, "newsapi") \o Called(outcomes, "mediastack"),
         financial_data |-> Called(outcomes, "fmp") \o Called(outcomes, "alphavantage")]

\* the SerpAPI searches are skipped together
BackendOutcomes ==
    {o \in [Backends -> CallOutcomes \cup {"skipped"}] :
        /\ \A b \in Backends \ Optional : o[b] # "skipped"
        /\ o["serp_news"] = "skipped" <=> o["serp_comp"] = "skipped"}

CollectInit ==
    /\ NoParse /\ NoRun /\ NoInstance /\ NoKeyCall /\ NoChat /\ NoQuery /\ NoRerun /\ NoFetch
    /\ NoGateway /\ NoExtras
    /\ \E o \in BackendOutcomes : co = [phase |-> "input", outcomes |-> o]

CollectBackends ==
    /\ co.phase = "input"
    /\ LET g == Gather(co.outcomes)
       IN  \E order \in Orderings(g.combined_unique_urls) :
              co' = [phase |-> "done", outcomes |-> co.outcomes,
                     raw_news_data |-> FetchAll(order, g.all_fetched_data, CollectFetch),
                     financial_data |-> g.financial_data]
    /\ UNCHANGED <<pvars, rvars, svars, kvars, hvars, qvars, rr, fc, gw, xvars>>

CollectNext == CollectBackends

SpecCollect == CollectInit /\ [][CollectNext]_vars

(***************************************************************************)
(* The data gateways and search_results_cache, lines 104 and 800-1098:     *)
(* search_with_tavily, search_with_serpapi, fetch_from_newsapi_direct,     *)
(* fetch_from_mediastack_direct, fetch_financial_data_fmp and              *)
(* fetch_financial_data_alphavantage, each under                           *)
(* @retry(stop=stop_after_attempt(3), wait=wait_exponential(...)).         *)
(* Strings are tuples of characters; the prefix of a key and               *)
(* "global_fallback" are one symbol each.  Beside its value a cache entry  *)
(* carries the call that stored it, which the code does not keep.          *)
(***************************************************************************)
Providers == {"tavily", "serpapi", "newsapi", "mediastack", "fmp", "alphavantage"}
\* the gateways that begin with "if <library> is None: return []"
WithLibrary == {"serpapi", "newsapi", "fmp", "alphavantage"}
\* the gateways with a user_id parameter
WithUserId == {"tavily", "serpapi", "newsapi", "mediastack"}
KeyPrefix ==
    [p \in Providers |->
        CASE p = "tavily"     -> "tavily_search_"
          [] p = "serpapi"    -> "serpapi_search_"
          [] p = "newsapi"    -> "newsapi_direct_search_"
          [] p = "mediastack" -> "mediastack_direct_search_"
          [] p = "fmp"        -> "fmp_data_"
          [] OTHER            -> "alphavantage_data_"]
NoUser == <<>>
GatewayOwners == {<<"u", "1">>, <<"u", "2">>}
GatewayQueries == {<<"A", "I", " ", "x">>, <<"a", "i", "_", "x">>, <<"E", "d">>}

\* query.lower().replace(' ', '_')
NormalizedQuery(query) ==
    [i \in 1..Len(query) |-> IF LowerChar(query[i]) = " " THEN "_" ELSE LowerChar(query[i])]

\* f"{prefix}{cache_user_prefix}_{query.lower().replace(' ', '_')}", and for the
\* financial gateways f"{prefix}{query.lower().replace(' ', '_')}"
cache_key(provider, user_id, query) ==
    IF provider \in WithUserId
    THEN <<KeyPrefix[provider]>>
            \o (IF user_id # NoUser THEN user_id ELSE <<"global_fallback">>)
            \o <<"_">> \o NormalizedQuery(query)
    ELSE <<KeyPrefix[provider]>> \o NormalizedQuery(query)

\* re.findall(r'\b([A-Z]{1,5})\b', query) finds a symbol
WordChar(c) == c = "_" \/ \E i \in 1..26 : c \in {AlphaLower[i], AlphaUpper[i]}
HasSymbol(query) ==
    \E i, j \in 1..Len(query) :
        /\ i <= j /\ j - i + 1 <= 5
        /\ \A k \in i..j : \E n \in 1..26 : query[k] = AlphaUpper[n]
        /\ i = 1 \/ ~WordChar(query[i - 1])
        /\ j = Len(query) \/ ~WordChar(query[j + 1])

\* what the provider answers when it is contacted
ProviderResponses == {"results", "nothing", "raise"}
ProviderValue(provider, query, response) ==
    IF response = "results" THEN <<[provider |-> provider, query |-> query]>> ELSE <<>>

Returns(v) == <<"return", v>>
GatewayResult(cache, ret, contacted, hit) ==
    [cache |-> cache, ret |-> ret, contacted |-> contacted, hit |-> hit]

\* a faulty variant: the failure of the provider is cached as the empty list
GatewayBodyCachesFailure(c, cache, response) ==
    LET key == cache_key(c.provider, c.user_id, c.query)
        entry == [value |-> ProviderValue(c.provider, c.query, response),
                  by |-> [provider |-> c.provider, query |-> c.query, owner |-> c.owner,
                          user_id |-> c.user_id, response |-> response]]
    IN  IF key \in DOMAIN cache THEN GatewayResult(cache, Returns(cache[key].value), FALSE, TRUE)
        ELSE GatewayResult((key :> entry) @@ cache, Returns(entry.value), TRUE, FALSE)

\* one execution of the body of a gateway: the library check, the cache lookup,
\* the credential, the symbol of the financial gateways, the provider
GatewayBody(c, cache, response) ==
    LET key == cache_key(c.provider, c.user_id, c.query)
        entry == [value |-> ProviderValue(c.provider, c.query, response),
                  by |-> [provider |-> c.provider, query |-> c.query, owner |-> c.owner,
                          user_id |-> c.user_id, response |-> response]]
    IN  IF c.provider \in WithLibrary /\ c.setup = "no library"
        THEN GatewayResult(cache, Returns(<<>>), FALSE, FALSE)
        ELSE IF key \in DOMAIN cache
        THEN GatewayResult(cache, Returns(cache[key].value), FALSE, TRUE)
        ELSE IF c.setup = "no key"
        THEN GatewayResult(cache, IF c.provider = "tavily" THEN Raises("ValueError")
                                  ELSE Returns(<<>>), FALSE, FALSE)
        ELSE IF c.provider \in {"fmp", "alphavantage"} /\ ~HasSymbol(c.query)
        THEN GatewayResult(cache, Returns(<<>>), FALSE, FALSE)
        ELSE IF response = "raise"
        THEN GatewayResult(cache, IF c.provider = "tavily" THEN Raises("RequestException")
                                  ELSE Returns(<<>>), TRUE, FALSE)
        ELSE GatewayResult((key :> entry) @@ cache, Returns(entry.value), TRUE, FALSE)

Setups(provider) ==
    {"ok", "no key"} \cup (IF provider \in WithLibrary THEN {"no library"} ELSE {})
\* the collector calls every gateway without user_id (lines 1160-1224)
Callers(provider) == {"collector"} \cup (IF provider \in WithUserId THEN {"direct"} ELSE {})

GatewayInit ==
    /\ NoParse /\ NoRun /\ NoInstance /\ NoKeyCall /\ NoChat /\ NoQuery /\ NoRerun /\ NoFetch
    /\ NoCollect /\ NoExtras
    /\ gw = [phase |-> "ready", nth |-> "none", cache |-> <<>>]

\* a gateway is called: by the collector in the run of the owner, or with the
\* owner as user_id
GatewayCall ==
    /\ \/ gw.phase = "ready"
       \/ gw.phase \in {"done", "expired"} /\ gw.nth = "first"
    /\ \E provider \in Providers, query \in GatewayQueries, owner \in GatewayOwners :
          \E setup \in Setups(provider), caller \in Callers(provider) :
              gw' = [phase |-> "attempt",
                     nth |-> IF gw.phase = "ready" THEN "first" ELSE "second",
                     cache |-> gw.cache, cache0 |-> gw.cache,
                     call |-> [provider |-> provider, query |-> query, owner |-> owner,
                               user_id |-> IF caller = "direct" THEN owner ELSE NoUser,
                               setup |-> setup],
                     attempts |-> 0, contacts |-> 0, failures |-> 0, hit |-> FALSE,
                     ret |-> Returns(<<>>)]
    /\ UNCHANGED <<pvars, rvars, svars, kvars, hvars, qvars, rr, fc, co, xvars>>

\* one attempt under the wrapper: a raise of the body is retried until the stop
\* condition holds, then the wrapper raises into the try of the collector
GatewayAttempt ==
    /\ gw.phase = "attempt"
    /\ \E response \in ProviderResponses :
          LET r == GatewayBody(gw.call, gw.cache, response)
              raised_now == r.ret[1] = "raise"
          IN  /\ ~r.contacted => response = "nothing"
              /\ gw' = [gw EXCEPT
                            !.cache = r.cache,
                            !.attempts = @ + 1,
                            !.contacts = IF r.contacted THEN @ + 1 ELSE @,
                            !.failures = IF r.contacted /\ response = "raise" THEN @ + 1 ELSE @,
                            !.hit = r.hit,
                            !.ret = r.ret,
                            !.phase = IF raised_now /\ ~RetryStops(gw.attempts + 1)
                                      THEN "attempt" ELSE "done"]
    /\ UNCHANGED <<pvars, rvars, svars, kvars, hvars, qvars, rr, fc, co, xvars>>

\* TTLCache(maxsize=100, ttl=3600): an entry leaves the cache between two calls
Expire ==
    /\ gw.phase = "done" /\ gw.nth = "first"
    /\ \E key \in DOMAIN gw.cache :
          gw' = [gw EXCEPT !.phase = "expired",
                           !.cache = [k \in DOMAIN gw.cache \ {key} |-> gw.cache[k]]]
    /\ UNCHANGED <<pvars, rvars, svars, kvars, hvars, qvars, rr, fc, co, xvars>>

GatewayNext == GatewayCall \/ GatewayAttempt \/ Expire

SpecGateway == GatewayInit /\ [][GatewayNext]_vars

(***************************************************************************)
(* Two runs side by side.  Each run creates its report directory in        *)
(* market_data_collector (lines 1134-1148), writes its artifact files      *)
(* there, and saves its index under get_vector_store_path (lines           *)
(* 1673-1679).  The steps of the two runs interleave; the clock of         *)
(* datetime.now().strftime("%Y%m%d_%H%M%S") reads whole seconds.           *)
(***************************************************************************)
\* re.sub(r'[^a-zA-Z0-9_-]', '_', (query or "general").lower().replace(' ', '_')[:20])
PrefixChar(c) ==
    IF c \in {"_", "-"} \/ \E i \in 1..26 : c \in {AlphaLower[i], AlphaUpper[i]}
    THEN c ELSE "_"
query_prefix(query) ==
    LET q == IF query = <<>> THEN <<"g", "e", "n", "e", "r", "a", "l">> ELSE query
        lowered == NormalizedQuery(q)
        cut == SubSeq(lowered, 1, IF Len(lowered) < 20 THEN Len(lowered) ELSE 20)
    IN  [i \in 1..Len(cut) |-> PrefixChar(cut[i])]

\* os.path.join(base_reports_path, f"{query_prefix}_{ts_string}")
run_report_dir(query, ts_string) ==
    <<"reports1", query_prefix(query) \o <<"_", ts_string>>>>

\* os.path.join(report_specific_dir, f"vector_store_faiss_{state_id[:4]}")
get_vector_store_path(report_dir, state_id) ==
    Append(report_dir, <<"vector_store_faiss_">> \o SubSeq(state_id, 1, 4))

\* the paths a step of a run writes
StepPaths(step, report_dir, state_id) ==
    CASE step = "collect" -> {report_dir, Append(report_dir, <<"edtech_data_sources.json">>),
                              Append(report_dir, <<"edtech_data_sources.csv">>)}
      [] step = "analyse" -> {Append(report_dir, <<"market_trends.json">>)}
      [] step = "index"   -> {get_vector_store_path(report_dir, state_id)}
      [] OTHER            -> {Append(report_dir, <<"market_intelligence_report.md">>)}
NextStep(step) ==
    CASE step = "collect" -> "analyse" [] step = "analyse" -> "index"
      [] step = "index" -> "report" [] OTHER -> "done"

LongQuery(c) == [i \in 1..21 |-> IF i = 21 THEN c ELSE "a"]
RunQueries == {<<"A", "I", " ", "x">>, <<"a", "i", "_", "x">>, <<"E", "d">>,
               LongQuery("b"), LongQuery("c")}
\* uuid4 identifiers; two of them begin with the same four characters
RunIds == {<<"a", "b", "c", "d", "1">>, <<"a", "b", "c", "d", "2">>,
           <<"e", "f", "g", "h", "1">>}
Seconds == {"12:00:00", "12:00:01"}

RunsInit ==
    /\ NoParse /\ NoRun /\ NoInstance /\ NoKeyCall /\ NoChat /\ NoQuery /\ NoRerun /\ NoFetch
    /\ NoCollect /\ NoGateway
    /\ NoChart /\ NoReport /\ NoInsights /\ NoChatCall /\ NoMongo /\ NoKeywords
    /\ \E q \in [1..2 -> RunQueries], id \in [1..2 -> RunIds] :
          /\ id[1] # id[2]
          /\ cr = [phase |-> "running", clock |-> "12:00:00",
                   run |-> [r \in 1..2 |-> [query |-> q[r], state_id |-> id[r],
                                             step |-> "collect", report_dir |-> NoPath]],
                   written |-> {}]

\* one stage of one run
RunStep ==
    /\ cr.phase = "running"
    /\ \E r \in 1..2 :
          LET me == cr.run[r]
              dir == IF me.step = "collect" THEN run_report_dir(me.query, cr.clock)
                     ELSE me.report_dir
          IN  /\ me.step # "done"
              /\ cr' = [cr EXCEPT !.run[r].report_dir = dir,
                                  !.run[r].step = NextStep(me.step),
                                  !.written = @ \cup {[path |-> p, by |-> me.state_id] :
                                                        p \in StepPaths(me.step, dir, me.state_id)}]
    /\ UNCHANGED <<pvars, rvars, svars, kvars, hvars, qvars, rr, fc, co, gw, ch, rp, ci, cw, mg, tk>>

\* a second passes
Tick ==
    /\ cr.phase = "running" /\ cr.clock = "12:00:00"
    /\ cr' = [cr EXCEPT !.clock = "12:00:01"]
    /\ UNCHANGED <<pvars, rvars, svars, kvars, hvars, qvars, rr, fc, co, gw, ch, rp, ci, cw, mg, tk>>

RunsNext == RunStep \/ Tick

SpecRuns == RunsInit /\ [][RunsNext]_vars

(***************************************************************************)
(* The values generate_charts plots, lines 1810-1820, 1845-1855 and        *)
(* 1910-1920: each of the first five items of a collection is turned into  *)
(* 3, 2 or 1 by its label; an item without the label counts as 'Medium'.   *)
(***************************************************************************)
Charts == {"market_trends", "opportunities", "strategic_recommendations"}
Labels == {"High", "Very High", "Critical", "Medium", "Low", NoStr}
\* t.get('estimated_impact', 'Medium')
LabelOr(label) == IF label = NoStr THEN "Medium" ELSE label
impact_value(impact) ==
    IF impact = "High" THEN 3 ELSE IF impact = "Medium" THEN 2 ELSE 1
potential_value(potential) ==
    IF potential = "High" \/ potential = "Very High" THEN 3
    ELSE IF potential = "Medium" THEN 2 ELSE 1
priority_value(priority) ==
    IF priority = "High" \/ priority = "Critical" THEN 3
    ELSE IF priority = "Medium" THEN 2 ELSE 1
\* collection[:5]
FirstFive(items) == SubSeq(items, 1, IF Len(items) < 5 THEN Len(items) ELSE 5)
ChartValues(chart, labels) ==
    LET shown == FirstFive(labels)
    IN  [i \in 1..Len(shown) |->
            CASE chart = "market_trends" -> impact_value(LabelOr(shown[i]))
              [] chart = "opportunities" -> potential_value(LabelOr(shown[i]))
              [] OTHER                   -> priority_value(LabelOr(shown[i]))]

\* collections of up to two items, and of six items of which the first four are 'Medium'
LabelLists ==
    UNION {[1..n -> Labels] : n \in 0..2}
      \cup {<<"Medium", "Medium", "Medium", "Medium">> \o l : l \in [1..2 -> Labels]}

ChartInit ==
    /\ NoParse /\ NoRun /\ NoInstance /\ NoKeyCall /\ NoChat /\ NoQuery /\ NoRerun /\ NoFetch
    /\ NoCollect /\ NoGateway
    /\ NoRuns /\ NoReport /\ NoInsights /\ NoChatCall /\ NoMongo /\ NoKeywords
    /\ \E chart \in Charts, labels \in LabelLists :
          ch = [phase |-> "input", chart |-> chart, labels |-> labels]

DrawChart ==
    /\ ch.phase = "input"
    /\ ch' = [phase |-> "drawn", chart |-> ch.chart, labels |-> ch.labels,
              values |-> ChartValues(ch.chart, ch.labels)]
    /\ UNCHANGED <<pvars, rvars, svars, kvars, hvars, qvars, rr, fc, co, gw, cr, rp, ci, cw, mg, tk>>

ChartNext == DrawChart

SpecChart == ChartInit /\ [][ChartNext]_vars

(***************************************************************************)
(* The report final_report_generator assembles, lines 1962-2052: the       *)
(* template, then one section per non-empty collection, the charts and     *)
(* the answered question.  An item is its name and the kind of its         *)
(* bulleted field (pain_points, implementation_steps): a list, or a number *)
(* that "for ... in" cannot iterate.                                       *)
(***************************************************************************)
ReportItem(name, bullets) == [name |-> name, bullets |-> bullets]
ItemLists ==
    { <<>>, <<ReportItem("i1", "list")>>, <<ReportItem("i1", "number")>>,
      [i \in 1..6 |-> ReportItem(<<"i", i>>, "list")] }
\* None, the empty string, a text
Texts == {NoStr, "", "text"}
Truthy(t) == t \notin {NoStr, ""}
ReportInputs ==
    [market_trends : ItemLists, opportunities : ItemLists, customer_insights : ItemLists,
     strategic_recommendations : ItemLists, chart_paths : {<<>>, <<"market_trends_impact.png">>},
     question : Texts, query_response : Texts]

Section(heading, items) == <<[heading |-> heading, items |-> items]>>
ListSection(heading, collection) ==
    IF collection # <<>> THEN Section(heading, FirstFive(collection)) ELSE <<>>
\* "for pain_point in insight.get('pain_points', [])" on a number raises
Iterates(collection) ==
    \A i \in DOMAIN FirstFive(collection) : collection[i].bullets # "number"

\* a faulty variant: the opportunities are reported only below the trends
ReportContentNested(s) ==
    IF ~Iterates(s.customer_insights) \/ ~Iterates(s.strategic_recommendations)
    THEN Raises("TypeError")
    ELSE Returns(
            (IF s.market_trends # <<>>
             THEN ListSection("Key Market Trends", s.market_trends)
                    \o ListSection("Market Opportunities", s.opportunities)
             ELSE <<>>)
            \o ListSection("Customer Insights", s.customer_insights)
            \o ListSection("Strategic Recommendations", s.strategic_recommendations)
            \o (IF s.chart_paths # <<>> THEN Section("Visualizations", s.chart_paths) ELSE <<>>)
            \o (IF Truthy(s.query_response) /\ Truthy(s.question)
                THEN Section("Analysis Response", <<s.question, s.query_response>>)
                ELSE <<>>))

ReportContent(s) ==
    IF ~Iterates(s.customer_insights) \/ ~Iterates(s.strategic_recommendations)
    THEN Raises("TypeError")
    ELSE Returns(
            ListSection("Key Market Trends", s.market_trends)
            \o ListSection("Market Opportunities", s.opportunities)
            \o ListSection("Customer Insights", s.customer_insights)
            \o ListSection("Strategic Recommendations", s.strategic_recommendations)
            \o (IF s.chart_paths # <<>> THEN Section("Visualizations", s.chart_paths) ELSE <<>>)
            \o (IF Truthy(s.query_response) /\ Truthy(s.question)
                THEN Section("Analysis Response", <<s.question, s.query_response>>)
                ELSE <<>>))

ReportInit ==
    /\ NoParse /\ NoRun /\ NoInstance /\ NoKeyCall /\ NoChat /\ NoQuery /\ NoRerun /\ NoFetch
    /\ NoCollect /\ NoGateway
    /\ NoRuns /\ NoChart /\ NoInsights /\ NoChatCall /\ NoMongo /\ NoKeywords
    /\ \E s \in ReportInputs : rp = [phase |-> "input", state |-> s]

AssembleReport ==
    /\ rp.phase = "input"
    /\ rp' = [phase |-> "assembled", state |-> rp.state, content |-> ReportContent(rp.state)]
    /\ UNCHANGED <<pvars, rvars, svars, kvars, hvars, qvars, rr, fc, co, gw, cr, ch, ci, cw, mg, tk>>

ReportNext == AssembleReport

SpecReport == ReportInit /\ [][ReportNext]_vars

(***************************************************************************)
(* customer_insights_generator and the table customer_insights, lines      *)
(* 282-291 and 1512-1616: the stage is called twice, for the same or for   *)
(* another state identifier.  A segment is its name; uuid4 gives every     *)
(* row an identifier no row has had.                                       *)
(***************************************************************************)
DefaultSegments == <<"Enterprise", "SMB", "Startups">>
AnsweredSegments == {<<"Students">>, <<"Students", "Teachers">>}
\* the model answers with a list of segments, answers with something the stage
\* replaces by the default, or the call raises
InsightOutcomes ==
    {[kind |-> "answer", segments |-> a] : a \in AnsweredSegments}
      \cup {[kind |-> k, segments |-> <<>>] : k \in {"not a list", "raise"}}
InsightIds == {"id1", "id2"}

SegmentRow(id, state_id, segment) ==
    [id |-> id, state_id |-> state_id, segment_name |-> segment, segment_data |-> segment]

\* lines 1530-1614: the field of the state and the rows of the table after the call
InsightsCall(table, state_id, outcome, committed, call) ==
    IF outcome.kind = "raise"
    THEN [customer_insights |-> DefaultSegments, table |-> table]
    ELSE LET parsed_insights == IF outcome.kind = "not a list" THEN DefaultSegments
                                ELSE outcome.segments
             inserted == {SegmentRow(<<call, i>>, state_id, parsed_insights[i]) :
                             i \in DOMAIN parsed_insights}
         IN  [customer_insights |-> parsed_insights,
              table |-> IF committed THEN table \cup inserted ELSE table]

InsightsInit ==
    /\ NoParse /\ NoRun /\ NoInstance /\ NoKeyCall /\ NoChat /\ NoQuery /\ NoRerun /\ NoFetch
    /\ NoCollect /\ NoGateway
    /\ NoRuns /\ NoChart /\ NoReport /\ NoChatCall /\ NoMongo /\ NoKeywords
    /\ ci = [phase |-> "input", table |-> {}, insights |-> <<>>, calls |-> <<>>]

customer_insights_call ==
    /\ ci.phase \in {"input", "once"}
    /\ \E state_id \in InsightIds, outcome \in InsightOutcomes, committed \in BOOLEAN :
          LET call == IF ci.phase = "input" THEN "first" ELSE "second"
              r == InsightsCall(ci.table, state_id, outcome, committed, call)
          IN  ci' = [phase |-> IF ci.phase = "input" THEN "once" ELSE "twice",
                     table |-> r.table,
                     insights |-> (state_id :> r.customer_insights) @@ ci.insights,
                     calls |-> Append(ci.calls, [state_id |-> state_id, outcome |-> outcome,
                                                 committed |-> committed])]
    /\ UNCHANGED <<pvars, rvars, svars, kvars, hvars, qvars, rr, fc, co, gw, cr, ch, rp, cw, mg, tk>>

InsightsNext == customer_insights_call

SpecInsights == InsightsInit /\ [][InsightsNext]_vars

(***************************************************************************)
(* chat_with_agent, one call after the other on two sessions.  The history *)
(* is the one loaded from the table or the list the client sent; an entry  *)
(* of a client's list need not have the key "type".  datetime.now() is     *)
(* read once by each of the two saves of a call: the second reading is the *)
(* first one or a later one.                                               *)
(***************************************************************************)
ConfigurationError == "Sorry, I encountered a configuration error while processing your message."
UnexpectedError == "Sorry, I encountered an unexpected error while processing your message."
ChatHistories == {"well-formed", "entry without type"}
ChatModels == {"answer", "ValueError", "Exception"}
UserMessage == "hello"

\* the text the try block and its two handlers come to
response_text(llm) ==
    CASE llm = "answer" -> "an answer"
      [] llm = "ValueError" -> ConfigurationError
      [] OTHER -> UnexpectedError

\* the whole call: the table after it and how the call ended.  first and second
\* are the two readings of the clock.
chat_with_agent(table, session_id, history, llm, first, second) ==
    LET saved == save_chat_message(table, session_id, "user", UserMessage, first)
    IN  IF history = "entry without type"
        THEN [table |-> saved, outcome |-> Raises("KeyError")]
        ELSE [table |-> save_chat_message(saved, session_id, "ai", response_text(llm), second),
              outcome |-> Returns(response_text(llm))]

ChatCallInit ==
    /\ NoParse /\ NoRun /\ NoInstance /\ NoKeyCall /\ NoChat /\ NoQuery /\ NoRerun /\ NoFetch
    /\ NoCollect /\ NoGateway
    /\ NoRuns /\ NoChart /\ NoReport /\ NoInsights /\ NoMongo /\ NoKeywords
    /\ cw = [phase |-> "open", table |-> {}, clock |-> 1, calls |-> <<>>]

ChatCall ==
    /\ cw.phase = "open"
    /\ Len(cw.calls) < MaxTurns
    /\ \E s \in Sessions, history \in ChatHistories, llm \in ChatModels,
         second \in {cw.clock, cw.clock + 1} :
          /\ second <= MaxTime
          /\ LET r == chat_with_agent(cw.table, s, history, llm, cw.clock, second)
             IN  cw' = [phase |-> "open", table |-> r.table, clock |-> second,
                        calls |-> Append(cw.calls, [session_id |-> s, history |-> history,
                                                     outcome |-> r.outcome])]
    /\ UNCHANGED <<pvars, rvars, svars, kvars, hvars, qvars, rr, fc, co, gw, cr, ch, rp, ci, mg, tk>>

\* time passes between two calls
ChatClock ==
    /\ cw.phase = "open"
    /\ cw.clock < MaxTime
    /\ cw' = [cw EXCEPT !.clock = @ + 1]
    /\ UNCHANGED <<pvars, rvars, svars, kvars, hvars, qvars, rr, fc, co, gw, cr, ch, rp, ci, mg, tk>>

ChatCallNext == ChatCall \/ ChatClock

SpecChatCalls == ChatCallInit /\ [][ChatCallNext]_vars

(***************************************************************************)
(* database.py: the module globals _db_client and _db, and the clients     *)
(* that MongoClient has made.  A database handle is named after the client *)
(* it was taken from.  The module is imported once; after that the three   *)
(* functions are called in any order, at most MaxCalls times.              *)
(***************************************************************************)
MaxCalls == 4
ClientNames == <<"client1", "client2", "client3", "client4", "client5", "client6">>

\* lines 18-26: the new values of the globals and of the set of open clients
connect_to_mongo(g) ==
    IF g._db_client = NoStr
    THEN LET client == ClientNames[g.made + 1]
         IN  [g EXCEPT !._db_client = client, !._db = client,
                       !.open = @ \cup {client}, !.made = @ + 1]
    ELSE g

\* lines 28-35: "global _db_client" only, so "_db = None" binds a local name
\* and the module's _db is left as it was
close_mongo_connection(g) ==
    IF g._db_client # NoStr
    THEN [g EXCEPT !.open = @ \ {g._db_client}, !._db_client = NoStr]
    ELSE g

\* lines 37-41: the globals after the call, and the handle returned
get_db(g) ==
    LET after == IF g._db = NoStr THEN connect_to_mongo(g) ELSE g
    IN  [after EXCEPT !.returned = after._db]

MongoInit ==
    /\ NoParse /\ NoRun /\ NoInstance /\ NoKeyCall /\ NoChat /\ NoQuery /\ NoRerun /\ NoFetch
    /\ NoCollect /\ NoGateway
    /\ NoRuns /\ NoChart /\ NoReport /\ NoInsights /\ NoChatCall /\ NoKeywords
    /\ mg = [phase |-> "imported", _db_client |-> NoStr, _db |-> NoStr, open |-> {},
             made |-> 0, returned |-> "not called", calls |-> <<>>]

MongoCall(name, after) ==
    /\ mg.phase = "imported"
    /\ Len(mg.calls) < MaxCalls
    /\ mg' = [after EXCEPT !.calls = Append(mg.calls, name)]
    /\ UNCHANGED <<pvars, rvars, svars, kvars, hvars, qvars, rr, fc, co, gw, cr, ch, rp, ci, cw, tk>>

ConnectToMongo == MongoCall("connect_to_mongo", connect_to_mongo(mg))
CloseMongoConnection == MongoCall("close_mongo_connection", close_mongo_connection(mg))
GetDb == MongoCall("get_db", get_db(mg))

MongoNext == ConnectToMongo \/ CloseMongoConnection \/ GetDb

SpecMongo == MongoInit /\ [][MongoNext]_vars

(***************************************************************************)
(* text_processor.py: analyze_text_keywords on the text of a document.     *)
(* The text is three pieces in a row: parts of sentences, the keywords in  *)
(* several casings, and near misses of the keywords.                       *)
(***************************************************************************)
BUSINESS_KEYWORDS ==
    << <<"m", "a", "r", "k", "e", "t", " ", "t", "r", "e", "n", "d", "s">>,
       <<"c", "o", "m", "p", "e", "t", "i", "t", "i", "v", "e", " ", "l", "a", "n", "d", "s", "c", "a", "p", "e">>,
       <<"c", "u", "s", "t", "o", "m", "e", "r", " ", "b", "e", "h", "a", "v", "i", "o", "r">>,
       <<"g", "r", "o", "w", "t", "h", " ", "s", "t", "r", "a", "t", "e", "g", "y">> >>

\* a search that tells small letters from capitals
analyze_text_keywords_exact_case(text_content) ==
    [keyword \in {BUSINESS_KEYWORDS[i] : i \in DOMAIN BUSINESS_KEYWORDS} |->
        text_content # <<>> /\ Contains(keyword, text_content)]

\* lines 207-223: the dictionary returned, a function on the keywords
analyze_text_keywords(text_content) ==
    [keyword \in {BUSINESS_KEYWORDS[i] : i \in DOMAIN BUSINESS_KEYWORDS} |->
        IF text_content = <<>> THEN FALSE
        ELSE Contains(ToLower(keyword), ToLower(text_content))]

TextPieces ==
    { <<>>,
      <<"T", "h", "i", "s", " ", "d", "o", "c", "u", "m", "e", "n", "t", " ", "d", "i", "s", "c", "u", "s", "s", "e", "s", " ">>,
      <<" ", "a", "n", "d", " ", "t", "h", "e", " ">>,
      <<"T", "h", "i", "s", " ", "i", "s", " ", "a", " ", "g", "e", "n", "e", "r", "i", "c", " ", "d", "o", "c", "u", "m", "e", "n", "t", ".">>,
      <<"m", "a", "r", "k", "e", "t", " ", "t", "r", "e", "n", "d", "s">>,
      <<"M", "a", "r", "k", "e", "t", " ", "T", "r", "e", "n", "d", "s">>,
      <<"c", "o", "m", "p", "e", "t", "i", "t", "i", "v", "e", " ", "l", "a", "n", "d", "s", "c", "a", "p", "e">>,
      <<"C", "O", "M", "P", "E", "T", "I", "T", "I", "V", "E", " ", "L", "A", "N", "D", "S", "C", "A", "P", "E">>,
      <<"c", "u", "s", "t", "o", "m", "e", "r", " ", "b", "e", "h", "a", "v", "i", "o", "r">>,
      <<"C", "u", "s", "t", "o", "m", "e", "r", " ", "B", "e", "h", "a", "v", "i", "o", "r">>,
      <<"g", "r", "o", "w", "t", "h", " ", "s", "t", "r", "a", "t", "e", "g", "y">>,
      <<"G", "R", "O", "W", "T", "H", " ", "S", "t", "r", "a", "t", "e", "g", "y">>,
      <<"m", "a", "r", "k", "e", "t", " ", "t", "r", "e", "n", "d">>,
      <<"c", "u", "s", "t", "o", "m", "e", "r", " ", " ", "b", "e", "h", "a", "v", "i", "o", "r">>,
      <<"g", "r", "o", "w", "t", "h", "-", "s", "t", "r", "a", "t", "e", "g", "y">>,
      <<"l", "a", "n", "d", "s", "c", "a", "p", "e", " ", "c", "o", "m", "p", "e", "t", "i", "t", "i", "v", "e">> }
DocumentTexts == {p[1] \o p[2] \o p[3] : p \in TextPieces \X TextPieces \X TextPieces}

KeywordsInit ==
    /\ NoParse /\ NoRun /\ NoInstance /\ NoKeyCall /\ NoChat /\ NoQuery /\ NoRerun /\ NoFetch
    /\ NoCollect /\ NoGateway
    /\ NoRuns /\ NoChart /\ NoReport /\ NoInsights /\ NoChatCall /\ NoMongo
    /\ \E t \in DocumentTexts : tk = [phase |-> "text", text_content |-> t]

AnalyzeText ==
    /\ tk.phase = "text"
    /\ tk' = [phase |-> "analyzed", text_content |-> tk.text_content,
              analysis_results |-> analyze_text_keywords(tk.text_content)]
    /\ UNCHANGED <<pvars, rvars, svars, kvars, hvars, qvars, rr, fc, co, gw, cr, ch, rp, ci, cw, mg>>

KeywordsNext == AnalyzeText

SpecKeywords == KeywordsInit /\ [][KeywordsNext]_vars

(***************************************************************************)
(* Properties of a run.                                                    *)
(***************************************************************************)
StageOrder ==
    << "market_data_collector", "trend_analyzer", "opportunity_identifier",
       "strategy_recommender", "customer_insights_generator", "report_template_generator",
       "setup_vector_store", "rag_query_handler", "generate_charts",
       "final_report_generator" >>
StageNames == {StageOrder[i] : i \in DOMAIN StageOrder}
Index(n) == CHOOSE i \in DOMAIN StageOrder : StageOrder[i] = n
IsPrefix(a, b) == Len(a) <= Len(b) /\ a = SubSeq(b, 1, Len(a))
Ran(n) == \E i \in DOMAIN executed : executed[i] = n
ValidInputs ==
    /\ validate_market_domain_value(inp.market_domain_str).ok
    /\ validate_query_value(inp.query_str).ok
StageRaised == \E i \in DOMAIN raised : raised[i][1] \in StageNames
BetweenStages == pc \in {"graph", "finish", "returned"} /\ cpc = "begin"

\* C1 as stated: in every run all ten stages execute, in the fixed order, none
\* skipped and none twice: when the run has returned, the stages that ran are
\* exactly the ten of the order.
C1_Original == pc = "returned" => executed = StageOrder

\* C1, amended: the stages that have run are always an initial part of the fixed
\* order (one at a time, none out of turn, none twice); inside the graph they are
\* exactly those before the node that runs next; and a run stops short of the
\* tenth stage only when the initial state was rejected or Data Collection raised.
C1_StagesInOrder ==
    /\ IsPrefix(executed, StageOrder)
    /\ pc = "graph" => Len(executed) = Index(node) - (IF cpc = "begin" THEN 1 ELSE 0)
    /\ pc = "finish" => executed = StageOrder
    /\ (pc = "returned" /\ executed # StageOrder) =>
          /\ raised # <<>>
          /\ raised[1][1] \in {"initial_state", "market_data_collector"}
          /\ Len(executed) = IF raised[1][1] = "initial_state" THEN 0 ELSE 1

\* C1 witness: a run that returned success after all ten stages
C1_Witness == pc = "returned" /\ result.success /\ executed = StageOrder

\* C2 as stated: between two stages every stage that has run to its end has
\* called save_state, on every path through it.
C2_Original == (BetweenStages /\ ~StageRaised) => saved_by = executed

\* C3 as stated: a run with valid inputs in which no directory creation failed
\* returns success=true with the identifier of the state it persisted.
C3_Original ==
    (pc = "returned" /\ ValidInputs /\ env.dirs = "ok") =>
        result.success /\ result.state_id = st.state_id

\* C4 as stated: no exception leaves the run; a run that returned without
\* success carries the failure identifier drawn at its start and the error text.
C4_Original ==
    /\ ~escaped
    /\ (pc = "returned" /\ ~result.success) =>
          result.state_id = error_state_id /\ result.error # NoStr

C6_Original ==
    (pc = "returned" /\ ValidInputs /\ ~escaped /\ env.dirs = "ok" /\ env.db = "ok") =>
        /\ Cardinality({r \in db : r.id = result.state_id}) = 1
        /\ save_ids = {result.state_id}
        /\ load_state(db, result.state_id, TRUE) # None

\* C7 as stated: the table holds at most one row per identifier; load_state of a
\* saved identifier gives the state of the latest save_state with it (database
\* statements not failing), and load_state of any other identifier gives nothing.
C7_Original ==
    \A id \in IDs :
        /\ Cardinality({r \in db : r.id = id}) <= 1
        /\ id \notin save_ids => load_state(db, id, TRUE) = None
        /\ (id \in save_ids /\ env.db = "ok") =>
              load_state(db, id, TRUE) = Loaded(last_saved)

\* C8 as stated: no stage raises.
C8_Original == ~StageRaised

\* C8, amended: the only stage that raises is Data Collection, and only when a
\* directory cannot be created; every other failure is caught inside the stage,
\* which puts its fallback in place: an unanswerable question leaves a message in
\* query_response, a failed template call leaves the default template.
C8_StagesCatch ==
    /\ \A i \in DOMAIN raised :
          raised[i][1] \in StageNames =>
             /\ raised[i][1] = "market_data_collector"
             /\ raised[i][2] \in {"OSError", "IOError"}
             /\ env.dirs = "flaky"
    /\ (Ran("rag_query_handler") /\ BetweenStages) => st.query_response # NoStr
    /\ (Ran("report_template_generator") /\ BetweenStages) => st.report_template # NoText
    /\ (Ran("trend_analyzer") /\ pc = "returned") => executed = StageOrder

\* C8 witness: every search, every model call and the index build failed, and
\* all ten stages ran
C8_Witness ==
    /\ pc = "returned" /\ env.llm = "down" /\ env.net = "down" /\ executed = StageOrder
    /\ st.vector_store_path = NoPath
    /\ st.market_trends = default_trends_list
    /\ ~StageRaised

\* the calls of an LLM-driven stage that give it nothing to use
FailedListCalls == {Raises("ValueError"), Raises("Exception")} \cup {Answers(t) : t \in BadListAnswers}
FailedTemplateCalls ==
    {Raises("ValueError"), Raises("Exception")} \cup {Answers(t) : t \in EmptyTemplateAnswers}
FieldAfter(field, default, outcome) ==
    AnalysisStage(st, fs, field, default, outcome, "k", "f", TRUE).state[field]

\* C9: in every state a run reaches, each LLM-driven stage, given a call that
\* raises or an answer that holds no list of objects (no text, for the
\* template), leaves exactly its default in its field; and a run in which Trend
\* Analysis ran goes on through Final Report Assembly.
C9_DefaultsOnFailure ==
    /\ pc = "graph" =>
          /\ \A o \in FailedListCalls :
                /\ FieldAfter("market_trends", default_trends_list, o) = default_trends_list
                /\ FieldAfter("opportunities", default_ops, o) = default_ops
                /\ FieldAfter("strategic_recommendations", default_strats, o) = default_strats
                /\ FieldAfter("customer_insights", default_insights, o) = default_insights
          /\ \A o \in FailedTemplateCalls :
                TemplateStage(st, o).report_template = default_tmpl(st.market_domain)
    /\ (env.llm = "down" /\ BetweenStages) =>
          /\ Ran("trend_analyzer") => st.market_trends = default_trends_list
          /\ Ran("opportunity_identifier") => st.opportunities = default_ops
          /\ Ran("strategy_recommender") => st.strategic_recommendations = default_strats
          /\ Ran("customer_insights_generator") => st.customer_insights = default_insights
          /\ Ran("report_template_generator") =>
                st.report_template = default_tmpl(st.market_domain)
    /\ (Ran("trend_analyzer") /\ pc = "returned") => Ran("final_report_generator")

\* C9 witness: every model call raised, the five fields hold their defaults and
\* Final Report Assembly ran
C9_Witness ==
    /\ pc = "returned" /\ env.llm = "down" /\ Ran("final_report_generator")
    /\ st.market_trends = default_trends_list
    /\ st.customer_insights = default_insights
    /\ st.report_template = default_tmpl(st.market_domain)

\* the raw-document collection Retrieval Index Setup finds is empty: no artifact
\* file, or an artifact with no document that has text
EmptyCollection ==
    \/ DataJson(st.report_dir) \notin fs
    \/ \A i \in DOMAIN st.raw_news_data : ~HasText(st.raw_news_data[i])
AfterIndexSetup == Ran("setup_vector_store") /\ BetweenStages

\* C13 as stated: after Retrieval Index Setup has run on an empty collection the
\* index holds exactly the one fallback document and the recorded path is set
\* and exists on disk.
C13_Original ==
    (AfterIndexSetup /\ EmptyCollection) =>
        /\ vs_index = <<FallbackDocument(st)>>
        /\ st.vector_store_path # NoPath
        /\ st.vector_store_path \in fs

\* C13, amended: after Retrieval Index Setup has run on an empty collection,
\* either the index was built, over exactly the one fallback document, and its
\* path is recorded, exists on disk and passes the availability test of Question
\* Answering; or building it failed, and then no path is recorded and no index is
\* on disk.  A recorded index is never empty.
C13_FallbackIndex ==
    /\ (AfterIndexSetup /\ EmptyCollection) =>
          IF st.vector_store_path # NoPath
          THEN /\ vs_index = <<FallbackDocument(st)>>
               /\ st.vector_store_path \in fs
               /\ \A o \in RagOutcomes :
                     RagStage([st EXCEPT !.question = "What next?"], fs, o).query_response
                        # "Vector store not available. Cannot answer question."
          ELSE vs_index = <<>>
    /\ (AfterIndexSetup /\ st.vector_store_path # NoPath) => vs_index # <<>>

\* C13 witness: the collector found nothing, and the index over the fallback
\* document is on disk
C13_Witness ==
    /\ AfterIndexSetup /\ st.raw_news_data = <<>>
    /\ vs_index = <<FallbackDocument(st)>>
    /\ st.vector_store_path \in fs

AfterCharts == Ran("generate_charts") /\ BetweenStages
Populated == {i \in DOMAIN ChartFields : st[ChartFields[i]] # <<>>}
ChartOf(i) == Append(st.report_dir, ChartFiles[i])
Registered(p) == \E k \in DOMAIN st.chart_paths : st.chart_paths[k] = p
\* the chart stage came to its last statement: no library was missing and no
\* rendering step raised
ChartsCompleted == "charts" \in DOMAIN st.download_files

\* C14 as stated: once the Chart stage has run, the number of charts registered
\* is the number of non-empty collections among the four.
C14_Original == AfterCharts => Len(st.chart_paths) = Cardinality(Populated)

\* C14, amended: a chart is never registered for an empty collection and never
\* twice, each registered chart is on disk, and the charts follow the order of
\* the collections; when the stage ran to its last statement the charts
\* registered are exactly those of the non-empty collections; when the chart
\* libraries are missing none is registered.
C14_ChartsPerCollection ==
    AfterCharts =>
        /\ \A i \in DOMAIN ChartFields : Registered(ChartOf(i)) => i \in Populated
        /\ \A k \in DOMAIN st.chart_paths :
              /\ st.chart_paths[k] \in fs
              /\ \E i \in Populated :
                    /\ st.chart_paths[k] = ChartOf(i)
                    /\ Cardinality({j \in Populated : j < i}) = k - 1
        /\ Len(st.chart_paths) <= Cardinality(Populated)
        /\ ChartsCompleted =>
              /\ Len(st.chart_paths) = Cardinality(Populated)
              /\ st.download_files["charts"] = PathList(st.chart_paths)
        /\ ~env.chart_libs => st.chart_paths = <<>>

\* C14 witness: only the trends are populated and exactly one chart, theirs, is
\* registered
C14_Witness ==
    /\ AfterCharts /\ ChartsCompleted
    /\ Populated = {1}
    /\ st.chart_paths = <<ChartOf(1)>>

AfterQuestionAnswering == Ran("rag_query_handler") /\ BetweenStages
NoQuestion == st.question = NoStr \/ st.question = ""
IndexAvailable == st.vector_store_path # NoPath /\ st.vector_store_path \in fs
RagAnswers == {"Answer", "No response generated."}
RagErrors == {"Error processing question due to configuration: error",
              "Error processing question: error"}

\* C15: Question Answering never raises, and once it has run the state holds an
\* answer string: the "no question" message when no question was supplied,
\* whatever the index; the "not available" message when a question was supplied
\* and the index path is unset or not on disk; otherwise the answer of the model
\* or a text describing the error.
C15_AlwaysAnAnswer ==
    /\ \A i \in DOMAIN raised : raised[i][1] # "rag_query_handler"
    /\ AfterQuestionAnswering =>
          /\ st.query_response # NoStr
          /\ NoQuestion => st.query_response = "No question provided for RAG query."
          /\ (~NoQuestion /\ ~IndexAvailable) =>
                st.query_response = "Vector store not available. Cannot answer question."
          /\ (~NoQuestion /\ IndexAvailable) =>
                st.query_response \in RagAnswers \cup RagErrors
    /\ (pc = "graph" /\ node = "rag_query_handler" /\ ~NoQuestion /\ IndexAvailable) =>
          /\ RagStage(st, fs, "result").query_response = "Answer"
          /\ \A o \in RagOutcomes \ {"result", "no result"} :
                RagStage(st, fs, o).query_response \in RagErrors

\* C15 witness: a question was asked of an index that is on disk and the call
\* failed on the credential: the answer is the text describing the error
C15_Witness ==
    /\ AfterQuestionAnswering /\ ~NoQuestion /\ IndexAvailable
    /\ st.query_response = "Error processing question due to configuration: error"

(***************************************************************************)
(* Properties of a state built or reassigned outside a run.                *)
(***************************************************************************)
Constructed == obj # NoState
DomainChars == Lower \cup Upper \cup Numerals \cup Whitespace \cup {"-"}
DomainWellFormed(d) ==
    /\ CharsOf(d) # <<>>
    /\ \A i \in 1..Len(CharsOf(d)) : CharsOf(d)[i] \in DomainChars
DomainGiven == vop.op \in {"construct", "assign_domain"}

\* C11 as stated: the market domain of every state, after construction and after
\* any reassignment, is non-empty and holds only letters, digits, spaces and
\* hyphens; a value with another character is rejected.
C11_Original ==
    /\ Constructed => DomainWellFormed(obj.market_domain)
    /\ (DomainGiven /\ \E i \in 1..Len(CharsOf(vop.domain)) :
                          CharsOf(vop.domain)[i] \notin DomainChars) => ~vop.ok

\* the query of the latest operation was put to the validator
QueryChecked ==
    \/ vop.op = "assign_query"
    \/ vop.op = "construct" /\ validate_market_domain_value(vop.domain).ok
Trimmed(q) == StrOf(Strip(CharsOf(q)))

\* C12 as stated: a query is accepted exactly when it is absent or has at least
\* 3 characters after trimming, and an accepted query is stored trimmed.
C12_Original ==
    QueryChecked =>
        /\ vop.ok <=> (vop.query = NoStr \/ Len(Strip(CharsOf(vop.query))) >= 3)
        /\ (vop.ok /\ vop.query # NoStr) => obj.query = Trimmed(vop.query)

\* C12, amended: a query is accepted exactly when it is absent, is the empty
\* string, or has at least 3 characters after trimming; an absent or empty query
\* is stored as absent and any other accepted query is stored trimmed; the query
\* of a state is always absent or a trimmed text of at least 3 characters.
C12_QueryValidation ==
    /\ QueryChecked =>
          /\ vop.ok <=> (vop.query \in {NoStr, ""} \/ Len(Strip(CharsOf(vop.query))) >= 3)
          /\ vop.ok => obj.query = (IF vop.query \in {NoStr, ""} THEN NoStr
                                    ELSE Trimmed(vop.query))
    /\ (Constructed /\ obj.query # NoStr) =>
          /\ Len(CharsOf(obj.query)) >= 3
          /\ Strip(CharsOf(obj.query)) = CharsOf(obj.query)

\* C12 witness: a padded query was assigned and is stored trimmed
C12_Witness ==
    /\ vop.op = "assign_query" /\ vop.query = " ai market " /\ vop.ok
    /\ obj.query = "ai market"

(***************************************************************************)
(* Properties of get_api_key.                                              *)
(***************************************************************************)
KeyCalled == kret # <<"not called", <<>>>>
\* the source is a record for the service: its name or its type holds the
\* normalized service name or, for a Gemini service, one of the Gemini terms
RecordFor(service_name, source) ==
    LET n == normalized(service_name)
        name == Remove(ToLower(source.name), <<" ">>)
        type == Remove(ToLower(source.type), <<" ">>)
    IN  \/ Contains(n, name) \/ Contains(n, type)
        \/ /\ n \in GeminiNames
           /\ \E term \in GeminiTerms : Contains(term, name) \/ Contains(term, type)
\* the non-empty keys of the owner's active records for the service
StoredKeys ==
    IF kcall.user_id = NoStr \/ kcall.supabase # "ok" THEN {}
    ELSE { api_key_from_db(kcall.table[i]) :
             i \in { j \in DOMAIN kcall.table :
                       /\ kcall.table[j].user_id = kcall.user_id
                       /\ kcall.table[j].status = "active"
                       /\ RecordFor(kcall.service_name, kcall.table[j])
                       /\ api_key_from_db(kcall.table[j]) # <<>> } }

\* C16 as stated: the call returns a stored key of the owner's active records for
\* the service when there is one, whatever the environment holds; otherwise it
\* returns what the environment configures for the service (a key, or nothing);
\* and it returns also when the store is unavailable or fails.
C16_Original ==
    KeyCalled =>
        IF StoredKeys # {} THEN kret \in {Key(k) : k \in StoredKeys}
        ELSE kret = key_from_environment(kcall.service_name, kcall.environ)

\* the key the call took from the per-owner store (None when the store was not
\* consulted or held no matching key, and the environment was used)
TakenFromStore ==
    IF kcall.user_id \notin {NoStr, ""} /\ kcall.supabase = "ok"
    THEN FirstStoredKey(normalized(kcall.service_name),
                        ActiveSourcesOf(kcall.table, kcall.user_id))
    ELSE None

\* C35 as stated: a key returned from the per-owner store for a service is the
\* key of an active record of the owner whose name or type matches the service;
\* a record stored for another service is never returned.
C35_Original ==
    (KeyCalled /\ TakenFromStore # None) =>
        /\ kret = TakenFromStore
        /\ kret \in {Key(k) : k \in StoredKeys}

\* what does hold: the returned stored key belongs to an active record of the
\* calling owner, never to another owner's or to an inactive record
C35_OwnActiveRecord ==
    (KeyCalled /\ TakenFromStore # None) =>
        /\ kret = TakenFromStore
        /\ \E i \in DOMAIN kcall.table :
              /\ kcall.table[i].user_id = kcall.user_id
              /\ kcall.table[i].status = "active"
              /\ kret = Key(api_key_from_db(kcall.table[i]))

(***************************************************************************)
(* Properties of the downloadable-files map.                               *)
(***************************************************************************)
\* C21 as stated: in every state of a run every value of download_files is a
\* single path, so every stored row reloads as a valid state and the final
\* state passes validation.
C21_Original ==
    /\ AllValuesStr(st.download_files)
    /\ \A r \in db : MarketIntelligenceState(r.state_data).ok
    /\ \A i \in DOMAIN raised : raised[i][1] # "final_state"

(***************************************************************************)
(* Properties of an aborted run.  In a state with pc = "aborted" the stage *)
(* named by node was executing and st is the state the stage before it     *)
(* returned.                                                               *)
(***************************************************************************)
AbortedIn(k) == pc = "aborted" /\ node = StageOrder[k] /\ cpc = "begin"

\* C22 as stated: when the run aborts while stage k executes (database statements
\* not failing), loading the run's identifier gives the state as it was at the
\* end of stage k-1.
C22_Original ==
    \A k \in 2..Len(StageOrder) :
        (AbortedIn(k) /\ env.db = "ok") =>
            load_state(db, st.state_id, TRUE) = Loaded(st)

\* the same for an abort before the chart stage has completed
C22_BeforeCharts ==
    \A k \in 2..Len(StageOrder) :
        (AbortedIn(k) /\ env.db = "ok" /\ AllValuesStr(st.download_files)) =>
            load_state(db, st.state_id, TRUE) = Loaded(st)

(***************************************************************************)
(* Properties of the stored customer segments.                             *)
(***************************************************************************)
RowsOf(state_id) == {r \in ci.table : r.state_id = state_id}
RowsMatch(state_id) ==
    /\ Cardinality(RowsOf(state_id)) = Len(ci.insights[state_id])
    /\ \A i \in DOMAIN ci.insights[state_id] :
          Cardinality({r \in RowsOf(state_id) : r.segment_data = ci.insights[state_id][i]}) = 1

\* C34 as stated: after the stage completes, on the path of the model's answer
\* and on the fallback path alike, the rows stored for the state identifier are
\* the segments of the state, one row each, also after the stage is run again for
\* the same identifier.
C34_Original ==
    ci.phase \in {"once", "twice"} => \A id \in DOMAIN ci.insights : RowsMatch(id)

\* what holds instead: the rows are the segments after the first call for an
\* identifier, when that call did not raise and its inserts were committed
C34_FirstCommittedCall ==
    ci.phase \in {"once", "twice"} =>
        \A id \in DOMAIN ci.insights :
            LET mine == SelectSeq(ci.calls, LAMBDA c : c.state_id = id)
            IN  Len(mine) = 1 /\ mine[1].outcome.kind # "raise" /\ mine[1].committed
                    => RowsMatch(id)

(***************************************************************************)
(* Properties of the assembled report.                                     *)
(***************************************************************************)
Assembled == rp.phase = "assembled" /\ rp.content[1] = "return"
SectionsOf(heading) ==
    {i \in DOMAIN rp.content[2] : rp.content[2][i].heading = heading}
HasSection(heading) == SectionsOf(heading) # {}
ListHeadings ==
    [market_trends |-> "Key Market Trends", opportunities |-> "Market Opportunities",
     customer_insights |-> "Customer Insights",
     strategic_recommendations |-> "Strategic Recommendations"]

\* C33: the assembled report has the trends, opportunities, customer-insights,
\* recommendations and charts section exactly when that collection is not empty,
\* and the question-and-answer section exactly when a question and an answer are
\* both there, each whatever the other collections hold; a list section shows the
\* first five items of its collection and no more.
C33_SectionsIndependent ==
    Assembled =>
        /\ \A f \in DOMAIN ListHeadings :
              /\ HasSection(ListHeadings[f]) <=> rp.state[f] # <<>>
              /\ Cardinality(SectionsOf(ListHeadings[f])) <= 1
              /\ \A i \in SectionsOf(ListHeadings[f]) :
                    /\ Len(rp.content[2][i].items) <= 5
                    /\ IsPrefix(rp.content[2][i].items, rp.state[f])
                    /\ Len(rp.content[2][i].items) = 5 \/ rp.content[2][i].items = rp.state[f]
        /\ HasSection("Visualizations") <=> rp.state.chart_paths # <<>>
        /\ HasSection("Analysis Response")
              <=> Truthy(rp.state.question) /\ Truthy(rp.state.query_response)

\* no trends, six opportunities of which five are shown, no insights, one
\* recommendation, no chart, a question with its answer
C33_Witness ==
    /\ Assembled
    /\ rp.state.market_trends = <<>> /\ Len(rp.state.opportunities) = 6
    /\ rp.state.customer_insights = <<>> /\ Len(rp.state.strategic_recommendations) = 1
    /\ rp.state.chart_paths = <<>>
    /\ Len(rp.content[2]) = 3
    /\ rp.content[2][1].heading = "Market Opportunities" /\ Len(rp.content[2][1].items) = 5
    /\ rp.content[2][3].heading = "Analysis Response"

(***************************************************************************)
(* Properties of the values the charts plot.                               *)
(***************************************************************************)
Drawn == ch.phase = "drawn"
ShownCount == IF Len(ch.labels) < 5 THEN Len(ch.labels) ELSE 5

\* C32 as stated: in each of the three charts every one of the first 5 items
\* gets 3 for the label "High" or "Very High", 2 for "Medium" and 1 for any other
\* label; items beyond the fifth are not charted.
C32_Original ==
    Drawn =>
        /\ Len(ch.values) = ShownCount
        /\ \A i \in 1..Len(ch.values) :
              ch.labels[i] # NoStr =>
                  ch.values[i] = CASE ch.labels[i] \in {"High", "Very High"} -> 3
                                   [] ch.labels[i] = "Medium" -> 2
                                   [] OTHER -> 1

\* what holds instead: 3 for "High" in every chart, for "Very High" in the
\* opportunities chart only and for "Critical" in the recommendations chart only;
\* 2 for "Medium" and for an item without the label; 1 otherwise
C32_PerChart ==
    Drawn =>
        /\ Len(ch.values) = ShownCount
        /\ \A i \in 1..Len(ch.values) :
              ch.values[i] =
                  CASE ch.labels[i] = "High" -> 3
                    [] ch.labels[i] = "Very High" /\ ch.chart = "opportunities" -> 3
                    [] ch.labels[i] = "Critical" /\ ch.chart = "strategic_recommendations" -> 3
                    [] ch.labels[i] \in {"Medium", NoStr} -> 2
                    [] OTHER -> 1

(***************************************************************************)
(* Properties of two runs side by side.                                    *)
(***************************************************************************)
SharedPaths ==
    {w.path : w \in {x \in cr.written : \E y \in cr.written : y.path = x.path /\ y.by # x.by}}

\* C31 as stated: two runs with distinct identifiers never write the same report
\* directory, artifact file or index path, also when they have the same query
\* and start within the same second.
C31_Original == cr.phase = "running" => SharedPaths = {}

\* what holds instead: the paths are apart when the sanitized prefixes of the
\* queries differ or the collectors read the clock in different seconds
C31_ApartByPrefixOrSecond ==
    cr.phase = "running" /\ SharedPaths # {} =>
        /\ query_prefix(cr.run[1].query) = query_prefix(cr.run[2].query)
        /\ cr.run[1].report_dir = cr.run[2].report_dir

(***************************************************************************)
(* Properties of the data gateways and their cache.                        *)
(***************************************************************************)
CallDone == gw.phase = "done"
\* the collector keeps the empty list: the wrapper raised, or the gateway returned []
TreatedAsEmpty == gw.ret[1] = "raise" \/ gw.ret = Returns(<<>>)
TypeOfGateway ==
    gw.phase \in {"attempt", "done"} =>
        /\ gw.attempts \in 0..stop_after_attempt
        /\ gw.contacts <= gw.attempts /\ gw.failures <= gw.contacts

\* C28 as stated: when a call of a gateway meets a failure of the network, the
\* call is made again, at most 3 attempts in all, and the pipeline takes the call
\* for an empty result only when the attempts are used up.
C28_Original ==
    /\ TypeOfGateway
    /\ CallDone /\ gw.failures > 0 /\ TreatedAsEmpty => gw.attempts = stop_after_attempt

\* what holds instead: search_with_tavily alone is called again after a failure,
\* up to 3 attempts; every other gateway returns [] at its first failure
C28_OnlyTavilyRetries ==
    /\ TypeOfGateway
    /\ CallDone /\ gw.call.provider = "tavily" /\ gw.ret[1] = "raise"
          => gw.attempts = stop_after_attempt
    /\ CallDone /\ gw.call.provider # "tavily" => gw.attempts = 1 /\ gw.ret[1] = "return"

Stores == gw.ret[1] = "return" /\ gw.contacts > gw.failures
CallKey == cache_key(gw.call.provider, gw.call.user_id, gw.call.query)

HitFrom == gw.cache0[CallKey].by

\* C30 as stated: a call receives a cached result only when the call that stored
\* it was for the same provider, the same normalized query and the same owner.
C30_Original ==
    CallDone /\ gw.hit =>
        /\ HitFrom.provider = gw.call.provider
        /\ NormalizedQuery(HitFrom.query) = NormalizedQuery(gw.call.query)
        /\ HitFrom.owner = gw.call.owner

\* what holds instead: same provider, same normalized query and, for the four
\* gateways that take one, the same user_id argument
C30_SameArguments ==
    CallDone /\ gw.hit =>
        /\ HitFrom.provider = gw.call.provider
        /\ NormalizedQuery(HitFrom.query) = NormalizedQuery(gw.call.query)
        /\ HitFrom.user_id = gw.call.user_id

(***************************************************************************)
(* Properties of the collector's backends.                                 *)
(***************************************************************************)
Collected == co.phase = "done"
Gave(b) == co.outcomes[b] = "results"
InNews(r) == \E i \in DOMAIN co.raw_news_data : co.raw_news_data[i] = r
InFinancial(r) == \E i \in DOMAIN co.financial_data : co.financial_data[i] = r
ResultsOf(b) == {BackendResults[b][i] : i \in DOMAIN BackendResults[b]}
\* the record the collector keeps for a URL a search found
PageRecord(u) == CASE CollectFetch[u] = "loaded" -> Fetched(u)
                   [] CollectFetch[u] = "failed" -> FailedToLoad(u)
                   [] OTHER -> NotLoaded(u)
\* the results of a backend are in the state
Kept(b) ==
    \A r \in ResultsOf(b) :
        CASE b \in SearchBackends -> InNews(PageRecord(r))
          [] b \in {"newsapi", "mediastack"} -> InNews(r)
          [] OTHER -> InFinancial(r)
\* nothing in the state comes from the backend alone
Absent(b) ==
    \A r \in ResultsOf(b) :
        CASE b \in SearchBackends ->
                 InNews(PageRecord(r)) =>
                     \E x \in SearchBackends \ {b} : Gave(x) /\ r \in ResultsOf(x)
          [] b \in {"newsapi", "mediastack"} -> ~InNews(r)
          [] OTHER -> ~InFinancial(r)

\* C27: whatever subset of the search, news and financial backends fails, returns
\* nothing or is skipped, the collector goes through to its end; those backends
\* add nothing to the state, and the results of every other backend are in it.
C27_BackendsIndependent ==
    Collected =>
        /\ \A b \in Backends : IF Gave(b) THEN Kept(b) ELSE Absent(b)
        /\ Len(co.raw_news_data)
             = Cardinality(UNION {ResultsOf(b) : b \in {x \in SearchBackends : Gave(x)}})
               + Cardinality({b \in {"newsapi", "mediastack"} : Gave(b)})
        /\ Len(co.financial_data) = Cardinality({b \in {"fmp", "alphavantage"} : Gave(b)})

\* the first Tavily search raises, NewsAPI returns nothing, Financial Modeling
\* Prep is skipped and every other backend has results
C27_Witness ==
    /\ Collected
    /\ co.outcomes["tavily_news"] = "raise" /\ co.outcomes["newsapi"] = "empty"
    /\ co.outcomes["fmp"] = "skipped"
    /\ \A b \in Backends \ {"tavily_news", "newsapi", "fmp"} : Gave(b)
    /\ co.financial_data = <<Financial("AlphaVantage")>>
    /\ Len(co.raw_news_data) = 4

(***************************************************************************)
(* Properties of the collector's loop over the URLs.                       *)
(***************************************************************************)
FetchDone == fc.phase = "done"
UrlSet == {fc.urls[i] : i \in DOMAIN fc.urls}
DirectUrls == {fc.direct[i].url : i \in DOMAIN fc.direct}
\* the records the loop appended behind the direct articles
Appended == SubSeq(fc.all_fetched_data, Len(fc.direct) + 1, Len(fc.all_fetched_data))
RecordsFor(u) == {i \in DOMAIN Appended : Appended[i].url = u}
OnePerUrl ==
    /\ SubSeq(fc.all_fetched_data, 1, Len(fc.direct)) = fc.direct
    /\ \A i \in DOMAIN Appended : Appended[i].url \in UrlSet \ DirectUrls
    /\ \A u \in UrlSet \ DirectUrls : Cardinality(RecordsFor(u)) = 1
    /\ \A u \in UrlSet \cap DirectUrls : RecordsFor(u) = {}

\* C26 as stated: every URL of the set that no direct article covers is fetched
\* once and gets one record, the page content or else the "Failed to Load"
\* placeholder with empty content, whatever happens to the other URLs; covered
\* URLs are not fetched.
C26_Original ==
    FetchDone =>
        /\ OnePerUrl
        /\ \A i \in DOMAIN Appended :
              Appended[i] \in {Fetched(Appended[i].url), FailedToLoad(Appended[i].url)}

\* C26 (amended): every URL of the set that no direct article covers is fetched
\* once and gets exactly one record: the page content when a document was loaded,
\* the "Content Not Loaded" placeholder with empty content and empty summary when
\* the loader returned no document, the "Failed to Load" placeholder with empty
\* content when the fetch raised; a failing URL does not keep any other URL from
\* being processed, and URLs covered by a direct article are not fetched.
C26_OneRecordPerUrl ==
    FetchDone =>
        /\ OnePerUrl
        /\ \A i \in DOMAIN Appended :
              LET u == Appended[i].url
              IN  Appended[i] = CASE fc.fetch_ok[u] = "loaded" -> Fetched(u)
                                  [] fc.fetch_ok[u] = "failed" -> FailedToLoad(u)
                                  [] OTHER -> NotLoaded(u)

\* three URLs, the first covered by a direct article, the fetch of the second
\* failing, the third loaded behind it
C26_Witness ==
    /\ FetchDone
    /\ fc.urls = <<"u1", "u2", "u3">> /\ fc.direct = <<Article("u1")>>
    /\ fc.fetch_ok["u2"] = "failed" /\ fc.fetch_ok["u3"] = "loaded"
    /\ fc.all_fetched_data = <<Article("u1"), FailedToLoad("u2"), Fetched("u3")>>

(***************************************************************************)
(* Properties of the fields each stage writes.                             *)
(***************************************************************************)
OwnedFields ==
    [ market_data_collector |-> {"report_dir", "raw_news_data", "competitor_data",
                                 "financial_data"},
      trend_analyzer |-> {"market_trends"},
      opportunity_identifier |-> {"opportunities"},
      strategy_recommender |-> {"strategic_recommendations"},
      customer_insights_generator |-> {"customer_insights"},
      report_template_generator |-> {"report_template"},
      setup_vector_store |-> {"vector_store_path"},
      rag_query_handler |-> {"query_response"},
      generate_charts |-> {"chart_paths"},
      final_report_generator |-> {} ]
OwnedKeys ==
    [ market_data_collector |-> {"raw_data_json", "raw_data_csv"},
      trend_analyzer |-> {"trends_json"},
      opportunity_identifier |-> {"opportunities_json"},
      strategy_recommender |-> {"strategies_json"},
      customer_insights_generator |-> {"customer_insights_json"},
      report_template_generator |-> {},
      setup_vector_store |-> {},
      rag_query_handler |-> {},
      generate_charts |-> {"charts"},
      final_report_generator |-> {"final_report", "readme"} ]

\* a step of the stage n leaves alone every field and every key of the
\* downloadable-files map that n does not own
KeepsOthers(n) ==
    /\ \A f \in (DOMAIN st) \ (OwnedFields[n] \cup {"download_files"}) : st'[f] = st[f]
    /\ DOMAIN st'.download_files \subseteq DOMAIN st.download_files \cup OwnedKeys[n]
    /\ \A k \in (DOMAIN st.download_files) \ OwnedKeys[n] :
          k \in DOMAIN st'.download_files /\ st'.download_files[k] = st.download_files[k]

\* C24: each stage changes only the state fields it owns (and, in the
\* downloadable-files map, only its own keys) and leaves every other field as
\* it found it; so no stage writes a field that a later stage produces.
C24_StagesOwnFields ==
    [][(pc = "graph" /\ node \in StageNames) => KeepsOthers(node)]_vars

\* Trend Analysis has written its field and the fields of the later stages are
\* still at their defaults
C24_Witness ==
    /\ pc = "graph" /\ node = "opportunity_identifier"
    /\ st.market_trends # <<>> /\ st.raw_news_data # <<>>
    /\ st.opportunities = <<>> /\ st.strategic_recommendations = <<>>
    /\ st.customer_insights = <<>> /\ st.report_template = NoText
    /\ st.vector_store_path = NoPath /\ st.query_response = NoStr /\ st.chart_paths = <<>>

(***************************************************************************)
(* Properties of the artifact files of the LLM-driven stages.              *)
(***************************************************************************)
LLMStages == {"trend_analyzer", "opportunity_identifier", "strategy_recommender",
              "customer_insights_generator", "report_template_generator"}

\* the downloadable-files map holds, under a key no other stage uses, a file
\* that is on disk
HasArtifact(n) ==
    \E k \in (DOMAIN st.download_files) \ UNION {OwnedKeys[m] : m \in StageNames \ {n}} :
        st.download_files[k][1] = "str" /\ st.download_files[k][2] \in fs

\* C25 as stated: with a report directory (and file writes not failing), once
\* an LLM-driven stage has completed its output is in an artifact file of its
\* own that the downloadable-files map registers, whether the stage succeeded
\* or fell back to its default.
C25_Original ==
    \A n \in LLMStages :
        (Ran(n) /\ st.report_dir # NoPath /\ env.disk = "ok") => HasArtifact(n)

\* Trend Analysis does write and register its file when the model's answer was
\* taken over
C25_TrendsAnswered ==
    (Ran("trend_analyzer") /\ env.disk = "ok" /\ st.market_trends # default_trends_list)
        => HasArtifact("trend_analyzer")

(***************************************************************************)
(* Properties of a stage that is run again.                                *)
(***************************************************************************)
\* C23 as stated: a stage run a second time on the state it produced, with the
\* same collaborator responses, yields the same state as the first run (so no
\* field grows and the row save_state writes is the same).
C23_Original ==
    rr.phase = "twice" => rr.state = rr.once /\ Row(rr.state) = Row(rr.once)

\* the stages other than the chart stage do yield the same state
C23_OtherStages ==
    (rr.phase = "twice" /\ rr.stage # "generate_charts") => rr.state = rr.once

(***************************************************************************)
(* Properties of the entry paths.                                          *)
(***************************************************************************)
\* C19 as stated: on every entry path the request starts the run with the owner
\* the caller passed, and every row the run saves carries that owner.
C19_Original ==
    /\ pc # "http_500"
    /\ pc # "start" => (st # NoState => st.user_id = inp.user_id)
    /\ \A r \in db : r.state_data.user_id = inp.user_id /\ r.user_id = inp.user_id

\* on the direct path the rows do carry the owner
C19_DirectPath ==
    inp.entry = "run_market_intelligence_agent" =>
        \A r \in db : r.state_data.user_id = inp.user_id /\ r.user_id = inp.user_id

(***************************************************************************)
(* Properties of the keyword analysis.                                     *)
(***************************************************************************)
Analyzed == tk.phase = "analyzed"
\* the same character, or the small and the capital form of one letter
SameIgnoringCase(a, b) ==
    a = b \/ \E n \in 1..26 : {a, b} = {AlphaLower[n], AlphaUpper[n]}
\* the keyword stands somewhere in the text, letter for letter up to case
OccursIgnoringCase(keyword, t) ==
    \E i \in 1..(Len(t) - Len(keyword) + 1) :
        \A j \in 1..Len(keyword) : SameIgnoringCase(t[i + j - 1], keyword[j])
FourKeywords ==
    { <<"m", "a", "r", "k", "e", "t", " ", "t", "r", "e", "n", "d", "s">>,
      <<"c", "o", "m", "p", "e", "t", "i", "t", "i", "v", "e", " ", "l", "a", "n", "d", "s", "c", "a", "p", "e">>,
      <<"c", "u", "s", "t", "o", "m", "e", "r", " ", "b", "e", "h", "a", "v", "i", "o", "r">>,
      <<"g", "r", "o", "w", "t", "h", " ", "s", "t", "r", "a", "t", "e", "g", "y">> }

\* C39: the result has an entry for each of the four business keywords and for
\* nothing else; the entry is true exactly when the keyword occurs in the text
\* ignoring case; for the empty text all four are false.
C39_KeywordsIgnoringCase ==
    Analyzed =>
        /\ DOMAIN tk.analysis_results = FourKeywords
        /\ \A keyword \in FourKeywords :
              tk.analysis_results[keyword] = OccursIgnoringCase(keyword, tk.text_content)
        /\ tk.text_content = <<>> =>
              \A keyword \in FourKeywords : tk.analysis_results[keyword] = FALSE

\* a text that holds "Market Trends" in capitals and a near miss of another
\* keyword: the first is found, the second is not
C39_Witness ==
    /\ Analyzed
    /\ Contains(<<"M", "a", "r", "k", "e", "t", " ", "T", "r", "e", "n", "d", "s">>, tk.text_content)
    /\ ~Contains(<<"m", "a", "r", "k", "e", "t", " ", "t", "r", "e", "n", "d", "s">>, tk.text_content)
    /\ Contains(<<"g", "r", "o", "w", "t", "h", "-", "s", "t", "r", "a", "t", "e", "g", "y">>, tk.text_content)
    /\ tk.analysis_results[<<"m", "a", "r", "k", "e", "t", " ", "t", "r", "e", "n", "d", "s">>] = TRUE
    /\ tk.analysis_results[<<"g", "r", "o", "w", "t", "h", " ", "s", "t", "r", "a", "t", "e", "g", "y">>] = FALSE

\* the test of the repository: its first text gives true, true, false, false
C39_TestText ==
    (Analyzed /\ tk.text_content = <<"T", "h", "i", "s", " ", "d", "o", "c", "u", "m", "e", "n", "t", " ", "d", "i", "s", "c", "u", "s", "s", "e", "s", " ">> \o <<"m", "a", "r", "k", "e", "t", " ", "t", "r", "e", "n", "d", "s">> \o <<" ", "a", "n", "d", " ", "t", "h", "e", " ">>) =>
        /\ tk.analysis_results[<<"m", "a", "r", "k", "e", "t", " ", "t", "r", "e", "n", "d", "s">>] /\ tk.analysis_results[<<"m", "a", "r", "k", "e", "t", " ", "t", "r", "e", "n", "d", "s">>]
        /\ ~tk.analysis_results[<<"c", "u", "s", "t", "o", "m", "e", "r", " ", "b", "e", "h", "a", "v", "i", "o", "r">>] /\ ~tk.analysis_results[<<"g", "r", "o", "w", "t", "h", " ", "s", "t", "r", "a", "t", "e", "g", "y">>]

(***************************************************************************)
(* Properties of the MongoDB connection.                                   *)
(***************************************************************************)
LastCallIs(name) == mg.calls # <<>> /\ mg.calls[Len(mg.calls)] = name
Closed == \E i \in DOMAIN mg.calls : mg.calls[i] = "close_mongo_connection"

\* C38 as stated: after any sequence of the three calls, get_db returns a
\* handle backed by an open client, and has connected if there was no open
\* connection, also after a close.
C38_Original ==
    LastCallIs("get_db") =>
        /\ mg.returned \in mg.open
        /\ mg._db_client = mg.returned

\* what does hold: as long as close_mongo_connection was never called, get_db
\* returns the handle of the one open client, connecting if need be
C38_BeforeAnyClose ==
    (LastCallIs("get_db") /\ ~Closed) =>
        /\ mg.returned \in mg.open
        /\ mg._db_client = mg.returned
        /\ mg.made = 1

(***************************************************************************)
(* Properties of a save that fails.                                        *)
(***************************************************************************)
\* this step is a save_state call of a stage, and its statement failed: the
\* row of the state it was given is not in the table afterwards
FailedSave ==
    /\ Len(saved_by') = Len(saved_by) + 1
    /\ Row(last_saved') \notin db'

\* C37: when the storage operation of a save fails, nothing is raised into the
\* stage, the stage returns its state to the graph, which goes on to the next
\* node, and the table, with the row stored earlier for the identifier, is as
\* it was.
C37_FailedSaveIsSilent ==
    [][FailedSave =>
          /\ db' = db
          /\ raised' = raised /\ escaped' = escaped /\ result' = result
          /\ st' = last_saved'
          /\ node' = Edge[saved_by'[Len(saved_by')]]
          /\ pc' \in {"graph", "finish"}]_vars

\* a save failed after an earlier one had stored a row for the identifier: the
\* earlier row is still there and the run goes on
C37_Witness ==
    /\ Len(saved_by) >= 2
    /\ Row(last_saved) \notin db
    /\ \E r \in db : r.id = last_saved.state_id
    /\ pc = "graph"

(***************************************************************************)
(* Properties of chat calls.                                               *)
(***************************************************************************)
CallsOn(s) == SelectSeq(cw.calls, LAMBDA c : c.session_id = s)
\* user turn, reply turn, user turn, reply turn ... of the calls made on s
TurnsOfCalls(s) ==
    [i \in 1..(2 * Len(CallsOn(s))) |->
        IF i % 2 = 1 THEN [type |-> "user", content |-> UserMessage]
        ELSE [type |-> "ai", content |-> CallsOn(s)[i \div 2].outcome[2]]]

\* C36 as stated: every chat call returns the text of a reply turn, and after n
\* calls on a session its history is the 2n turns user, reply, user, reply ...
\* of those calls, whether the model answered or failed.
C36_Original ==
    \A s \in Sessions :
        /\ \A i \in DOMAIN CallsOn(s) : CallsOn(s)[i].outcome[1] = "return"
        /\ load_chat_history(cw.table, s) = TurnsOfCalls(s)

\* what does hold: a call whose history can be read returns one of the three
\* texts, and a session never holds more than two turns per call
C36_ReadableHistoryReturns ==
    \A s \in Sessions :
        /\ \A i \in DOMAIN CallsOn(s) :
              CallsOn(s)[i].history = "well-formed" =>
                  CallsOn(s)[i].outcome \in {Returns(response_text(llm)) : llm \in ChatModels}
        /\ Len(load_chat_history(cw.table, s)) <= 2 * Len(CallsOn(s))

(***************************************************************************)
(* Properties of the chat history.                                         *)
(***************************************************************************)
SavedTurns(s) ==
    LET mine == SelectSeq(chat_log, LAMBDA x : x.session_id = s)
    IN  [i \in 1..Len(mine) |-> [type |-> mine[i].type, content |-> mine[i].content]]

\* C17 as stated: loading a session's history gives every turn saved for that
\* session, and none of another session, in the order in which they were saved.
C17_Original == \A s \in Sessions : load_chat_history(chat, s) = SavedTurns(s)

(***************************************************************************)
(* Properties of the owner-scoped queries.                                 *)
(***************************************************************************)
QueryCalled == qret # NotQueried

\* the stored rows the requesting user owns
OwnRows == {r \in qcall.table : r.user_id = qcall.user_id /\ r.user_id # NoStr}
PathsOf(r) ==
    {r.state_data.download_files[i][2] : i \in DOMAIN r.state_data.download_files}
        \cup {r.state_data.chart_paths[i] : i \in DOMAIN r.state_data.chart_paths}

\* C18: the owner-scoped queries return data only about states whose stored
\* owner equals the requesting user: every listed entry is a row the requester
\* owns, download info and a file path are given only for a requested state the
\* requester owns and only from that row's data; a state of another user or
\* with no owner is never listed and yields neither.
C18_OwnerScoped ==
    QueryCalled =>
        /\ qret[1] = "list" =>
              \A i \in DOMAIN qret[2] :
                  \E r \in OwnRows :
                      /\ qret[2][i].state_id = r.id
                      /\ qret[2][i].user_id = r.user_id
                      /\ qret[2][i].market_domain = r.market_domain
                      /\ qret[2][i].query = r.query
        /\ qret[1] = "info" =>
              \E r \in OwnRows :
                  /\ r.id = qcall.state_id /\ qret[2].state_id = r.id
                  /\ qret[2].query = r.query /\ qret[2].market_domain = r.market_domain
                  /\ \A i \in DOMAIN qret[2].files :
                        \E p \in PathsOf(r) : qret[2].files[i].filename = basename(p)
        /\ qret[1] = "path" =>
              \E r \in OwnRows :
                  /\ r.id = qcall.state_id
                  /\ \E p \in PathsOf(r) : p # NullPath /\ qret[2] = abspath(p)

\* a list that returns the requester's state while the table also holds a state
\* of another user or of no owner
C18_Witness ==
    /\ QueryCalled /\ qcall.op = "list" /\ qret[1] = "list" /\ Len(qret[2]) = 1
    /\ \E r \in qcall.table : r.user_id # qcall.user_id

(***************************************************************************)
(* Properties of the parser.                                               *)
(***************************************************************************)
Openers == {"{", "["}
CountIn(t, c, a, b) == Cardinality({i \in a..b : t[i] = c})
HasOpener(t) == \E i \in 1..Len(t) : t[i] \in Openers
FirstOpener(t) == CHOOSE i \in 1..Len(t) : t[i] \in Openers /\ \A j \in 1..(i-1) : t[j] \notin Openers
\* the bracket that opens at FirstOpener is closed at e and not before
BalancedAt(t, e) ==
    LET s == FirstOpener(t)
    IN  /\ e >= s
        /\ CountIn(t, t[s], s, e) = CountIn(t, Closer(t[s]), s, e)
        /\ \A k \in s..(e-1) : CountIn(t, t[s], s, k) # CountIn(t, Closer(t[s]), s, k)
NeverBalanced(t) == HasOpener(t) /\ ~ \E e \in 1..Len(t) : BalancedAt(t, e)
Extracted(t) == SubSeq(t, FirstOpener(t), CHOOSE e \in 1..Len(t) : BalancedAt(t, e))

ReturnsDefault == parsed = (IF dflt = None THEN JArr(<<>>) ELSE dflt)

Prose == {"a"}
IsProse(t) == \A i \in 1..Len(t) : t[i] \in Prose
\* t is prose, then optionally "```json", then the segment a..b, then optionally
\* Fence, then prose
WrappedInProse(t, a, b) ==
    /\ 1 <= a /\ a <= b /\ b <= Len(t)
    /\ \/ IsProse(SubSeq(t, 1, a - 1)) /\ IsProse(SubSeq(t, b + 1, Len(t)))
       \/ /\ a >= 2 /\ t[a - 1] = "F" /\ IsProse(SubSeq(t, 1, a - 2))
          /\ b < Len(t) /\ t[b + 1] = "E" /\ IsProse(SubSeq(t, b + 2, Len(t)))
IsContainer(s) == JsonLoads(s).ok /\ JsonLoads(s).val[1] \in {"arr", "obj"}
\* a quoted string of s holds a bracket or a fence marker: with containers'
\* strings the only place a symbol other than a structural one can stand,
\* that is a bracket count that differs from the structural one, or a marker
InString(s, i) == Cardinality({j \in 1..(i-1) : s[j] = Quote}) % 2 = 1
CleanStrings(s) ==
    \A i \in 1..Len(s) : InString(s, i) => s[i] \notin {"[", "]", "{", "}", "F", "E"}

\* C10 as stated, its last part taken for arrays and objects: a valid JSON array
\* or object wrapped in prose or in a json code fence is returned parsed.
C10_Original ==
    pphase = "done" =>
        \A a, b \in 1..Len(text) :
            (WrappedInProse(text, a, b) /\ IsContainer(SubSeq(text, a, b)))
                => parsed = JsonLoads(SubSeq(text, a, b)).val

\* C10 (amended): the parser returns the supplied default (an empty list when none
\* is supplied) when the text has no opening bracket, when its first opening
\* bracket is never balanced, and when the extracted substring is not valid JSON;
\* it returns the parsed value for a JSON array or object wrapped in prose or in a
\* json code fence provided no quoted string of the value holds a bracket or a
\* fence marker.
C10_ParserDefaultsAndWrapped ==
    pphase = "done" =>
        /\ ~HasOpener(text) => ReturnsDefault
        /\ NeverBalanced(text) => ReturnsDefault
        /\ (HasOpener(StripFences(text)) /\ ~NeverBalanced(StripFences(text))
              /\ ~JsonLoads(Extracted(StripFences(text))).ok) => ReturnsDefault
        /\ \A a, b \in 1..Len(text) :
              (WrappedInProse(text, a, b) /\ IsContainer(SubSeq(text, a, b))
                 /\ CleanStrings(SubSeq(text, a, b)))
                  => parsed = JsonLoads(SubSeq(text, a, b)).val

C10_Witness ==
    /\ pphase = "done"
    /\ dflt = SomeDefault
    /\ text = <<"a", "F", "[", "]", "E">>
    /\ parsed = JArr(<<>>)

\* the position at which the count of the first opener's own bracket type is
\* back at zero
EndOf(t) == CHOOSE e \in 1..Len(t) : BalancedAt(t, e)

\* C20: in the fence-stripped text the parser starts at the first "{" or "[",
\* counts only brackets of that type (those inside quoted strings too), stops
\* at the first position where the count is back at zero and parses exactly the
\* substring from the start bracket to that position (its value when it is
\* valid JSON, the default otherwise); what follows that position does not
\* affect the result: cutting the text anywhere behind it, or appending a
\* symbol to it, extracts the same substring.
C20_ScanToFirstBalance ==
    pphase = "done" =>
        LET cleaned == StripFences(text)
        IN  (HasOpener(cleaned) /\ ~NeverBalanced(cleaned)) =>
                LET e == EndOf(cleaned)
                    js == SubSeq(cleaned, FirstOpener(cleaned), e)
                IN  /\ ExtractJson(cleaned) = [found |-> TRUE, s |-> js]
                    /\ parsed = IF JsonLoads(js).ok THEN JsonLoads(js).val
                                ELSE IF dflt = None THEN JArr(<<>>) ELSE dflt
                    /\ \A k \in e..Len(cleaned) :
                          ExtractJson(SubSeq(cleaned, 1, k)) = ExtractJson(cleaned)
                    /\ \A x \in Alphabet :
                          ExtractJson(Append(cleaned, x)) = ExtractJson(cleaned)

\* an object is parsed from a text that goes on with brackets of the other type
\* behind the position where the braces balance
C20_Witness ==
    /\ pphase = "done"
    /\ dflt = SomeDefault
    /\ text = <<"a", "{", "}", "]", "[">>
    /\ parsed = JObj(<<>>)

====
